---- MODULE Spec2Model ----
(***************************************************************************)
(* Geometry-serving pipeline of MapData/backend: the tolerance selector,   *)
(* the bounding-box filter, the geometry codec and the two query methods   *)
(* of DatabaseService (get_all_states, get_counties), run against a        *)
(* PostGIS-like store holding a states table and a counties table.         *)
(*                                                                         *)
(* Python values are tagged records, so that None, strings, integers,      *)
(* floats, UUIDs and JSON objects stay distinct values:                    *)
(*   None           [tag |-> "null"]                                       *)
(*   "text"         [tag |-> "str",   s |-> "text"]                        *)
(*   7              [tag |-> "int",   n |-> 7]                             *)
(*   0.02           [tag |-> "float", f |-> 2000]   (f counts 0.00001s;    *)
(*                  bounding-box coordinates count whole degrees)          *)
(*   UUID           [tag |-> "uuid",  u |-> k]                             *)
(*   {...}          [tag |-> "dict",  items |-> [key |-> value]]           *)
(***************************************************************************)
EXTENDS Integers, Sequences, FiniteSets, TLC

VARIABLES
    db,          \* the store: [states |-> <<row, ...>>, counties |-> <<row, ...>>]
    pc,          \* position of the running query method
    req,         \* the arguments of the running query method
    rows,        \* `states` / `counties`: the rows returned by query.all()
    tolerance,   \* the local `tolerance` after "Determine simplification tolerance"
    hawaii_state_id, \* get_counties' local of that name
    idx,         \* number of rows the for-loop has completed
    features,    \* the local list `features`
    result,      \* what the caller receives: returned list or raised error
    dbCalls,     \* log of the calls made on the session `db`
    conversions, \* log of the calls of convert_geometry_to_geojson
    unitCalls,   \* log of direct calls of the pure helpers of utils/geo_utils.py
    history,     \* the calls that have completed: <<[req, result], ...>>
    callers,     \* the argument values callers pass: [tolerances, zooms, coords]
    other,       \* the frame of a second request, suspended while this one runs
    job          \* the ingestion run: its position, its input and what it returned

vars == <<db, pc, req, rows, tolerance, hawaii_state_id, idx, features,
          result, dbCalls, conversions, unitCalls, history, callers, other, job>>

queryVars == <<pc, req, rows, tolerance, hawaii_state_id, idx, features,
               result, dbCalls, conversions>>

(***************************************************************************)
(* Bounds                                                                  *)
(***************************************************************************)
MaxRows == 2          \* rows per table
MaxQueryCoord == 0    \* bounding-box coordinates of a query: None, 0..MaxQueryCoord
MaxQueryZoom == 7     \* zoom levels of a query: None, 6..MaxQueryZoom
MaxZoom == 21         \* zoom levels of direct resolve calls: -MaxZoom..MaxZoom
MaxCoord == 1         \* coordinates of direct build calls: -MaxCoord..MaxCoord
MaxResolveCalls == 2  \* direct calls of get_simplification_tolerance in a run
MaxConvertCalls == 2  \* direct calls of convert_geometry_to_geojson in a run
MaxBuildCalls == 1    \* direct calls of create_bounding_box_filter in a run
MaxRepeats == 1       \* times a completed query is called again with its arguments
MaxRectCoord == 1     \* bounding-box coordinates of SpecRectangle: None, 0..MaxRectCoord
MaxFeed == 2          \* features in the GeoJSON file an ingestion script reads

(***************************************************************************)
(* Python values                                                           *)
(***************************************************************************)
None == [tag |-> "null"]
Str(s) == [tag |-> "str", s |-> s]
IntV(n) == [tag |-> "int", n |-> n]
FloatV(f) == [tag |-> "float", f |-> f]
Uuid(k) == [tag |-> "uuid", u |-> k]
Dict(d) == [tag |-> "dict", items |-> d]

EmptyItems == [k \in {} |-> None]

\* str(uuid): the canonical text of a UUID
str(v) == IF v.tag = "uuid" THEN Str("uuid-" \o ToString(v.u))
          ELSE IF v.tag = "null" THEN Str("None")
          ELSE v

\* bool(v): Python truthiness, as used by `if state_id:` and `if bbox_filter:`
Truthy(v) == CASE v.tag = "null" -> FALSE
               [] v.tag = "str" -> v.s # ""
               [] v.tag = "int" -> v.n # 0
               [] v.tag = "float" -> v.f # 0
               [] v.tag = "dict" -> DOMAIN v.items # {}
               [] OTHER -> TRUE

(***************************************************************************)
(* utils/geo_utils.py                                                      *)
(***************************************************************************)
\* the literal {"type": "Point", "coordinates": [0, 0]}
create_placeholder_geometry == [type |-> "Point", coordinates |-> <<0, 0>>]

\* A stored geometry is [tag |-> "geom", shape, ext, wellformed]; what
\* ST_SimplifyPreserveTopology returns is [tag |-> "simplified", of, tol].
\* to_shape fails on a geometry that is not well formed.
ToShapeFails(g) == CASE g.tag = "geom" -> ~g.wellformed
                     [] g.tag = "simplified" -> ~g.of.wellformed
                     [] OTHER -> TRUE

\* mapping(to_shape(g)): the GeoJSON object of a geometry; its coordinates
\* stand for the ring of shape `shape` reduced with tolerance `tol` (0 = raw)
mapping(g) == IF g.tag = "geom"
              THEN [type |-> "MultiPolygon", coordinates |-> <<g.shape, 0>>]
              ELSE [type |-> "MultiPolygon", coordinates |-> <<g.of.shape, g.tol.f>>]

\* the codec without its try / except: a failing to_shape propagates
convert_geometry_to_geojson_propagating(geometry_column) ==
    IF geometry_column = None
    THEN [raised |-> FALSE, value |-> [type |-> "Point", coordinates |-> <<0, 0>>]]
    ELSE IF ToShapeFails(geometry_column)
         THEN [raised |-> TRUE, value |-> None]
         ELSE [raised |-> FALSE, value |-> mapping(geometry_column)]

\* returns [raised |-> BOOLEAN, value |-> GeoJSON object]
convert_geometry_to_geojson(geometry_column) ==
    IF geometry_column = None
    THEN [raised |-> FALSE, value |-> [type |-> "Point", coordinates |-> <<0, 0>>]]
    ELSE IF ToShapeFails(geometry_column)
         THEN [raised |-> FALSE, value |-> [type |-> "Point", coordinates |-> <<0, 0>>]]
         ELSE [raised |-> FALSE, value |-> mapping(geometry_column)]

\* properties.get(key, '')
DictGet(properties, key, default) ==
    IF key \in DOMAIN properties THEN properties[key] ELSE default

\* name = properties.get('name', '').lower() raises AttributeError unless
\* the value is a string
NameLowerRaises(properties) == DictGet(properties, "name", Str("")).tag # "str"

Lower(s) == CASE s = "Alaska" -> "alaska"
              [] s = "Hawaii" -> "hawaii"
              [] OTHER -> s

is_alaska(properties) ==
    \/ Lower(DictGet(properties, "name", Str("")).s) = "alaska"
    \/ DictGet(properties, "fips_code", Str("")) = Str("02")

is_hawaii(properties) ==
    \/ Lower(DictGet(properties, "name", Str("")).s) = "hawaii"
    \/ DictGet(properties, "fips_code", Str("")) = Str("15")

\* the envelope with the coordinates put in ascending order
get_bounding_box_filter_sorted(min_lon, min_lat, max_lon, max_lat) ==
    [tag |-> "envelope",
     args |-> <<IF min_lon.f <= max_lon.f THEN min_lon ELSE max_lon,
                IF min_lat.f <= max_lat.f THEN min_lat ELSE max_lat,
                IF min_lon.f <= max_lon.f THEN max_lon ELSE min_lon,
                IF min_lat.f <= max_lat.f THEN max_lat ELSE min_lat>>,
     srid |-> 4326]

\* f"ST_MakeEnvelope({min_lon}, {min_lat}, {max_lon}, {max_lat}, 4326)"
get_bounding_box_filter(min_lon, min_lat, max_lon, max_lat) ==
    [tag |-> "envelope", args |-> <<min_lon, min_lat, max_lon, max_lat>>, srid |-> 4326]

\* the filter with `all(x for x in [...])` in place of `all(x is not None ...)`
create_bounding_box_filter_truthy(min_lon, min_lat, max_lon, max_lat) ==
    IF \A x \in {min_lon, min_lat, max_lon, max_lat} : Truthy(x)
    THEN get_bounding_box_filter(min_lon, min_lat, max_lon, max_lat)
    ELSE None

\* the filter that pads a partial box with 0 instead of dropping it
create_bounding_box_filter_padded(min_lon, min_lat, max_lon, max_lat) ==
    IF \E x \in {min_lon, min_lat, max_lon, max_lat} : x # None
    THEN get_bounding_box_filter(IF min_lon = None THEN FloatV(0) ELSE min_lon,
                                 IF min_lat = None THEN FloatV(0) ELSE min_lat,
                                 IF max_lon = None THEN FloatV(0) ELSE max_lon,
                                 IF max_lat = None THEN FloatV(0) ELSE max_lat)
    ELSE None

create_bounding_box_filter(min_lon, min_lat, max_lon, max_lat) ==
    IF \A x \in {min_lon, min_lat, max_lon, max_lat} : x # None
    THEN get_bounding_box_filter(min_lon, min_lat, max_lon, max_lat)
    ELSE None

\* the table with 0.05 typed for 0.005 at zoom 9
tolerance_map_typo ==
    (5 :> 5000) @@ (6 :> 3000) @@ (7 :> 2000) @@ (8 :> 1000) @@ (9 :> 5000) @@
    (10 :> 300) @@ (11 :> 200) @@ (12 :> 100) @@ (13 :> 50) @@ (14 :> 30) @@
    (15 :> 10) @@ (16 :> 5)

tolerance_map ==
    (5 :> 5000) @@ (6 :> 3000) @@ (7 :> 2000) @@ (8 :> 1000) @@ (9 :> 500) @@
    (10 :> 300) @@ (11 :> 200) @@ (12 :> 100) @@ (13 :> 50) @@ (14 :> 30) @@
    (15 :> 10) @@ (16 :> 5)

\* the selector without the `zoom_level <= 5` clamp
get_simplification_tolerance_unclamped(zoom_level) ==
    IF zoom_level = None THEN FloatV(1000)
    ELSE IF zoom_level.n >= 16 THEN FloatV(5)
    ELSE IF zoom_level.n \in DOMAIN tolerance_map
         THEN FloatV(tolerance_map[zoom_level.n])
         ELSE FloatV(1000)

get_simplification_tolerance(zoom_level) ==
    IF zoom_level = None THEN FloatV(1000)
    ELSE IF zoom_level.n <= 5 THEN FloatV(5000)
    ELSE IF zoom_level.n >= 16 THEN FloatV(5)
    ELSE IF zoom_level.n \in DOMAIN tolerance_map
         THEN FloatV(tolerance_map[zoom_level.n])
         ELSE FloatV(1000)

(***************************************************************************)
(* The store (models/geographic.py).  A database is a states table and a   *)
(* counties table, each a sequence in storage iteration order.  Row k has  *)
(* a fixed identity; its optional columns follow one of four profiles.     *)
(***************************************************************************)
StateNames == <<"Alaska", "Hawaii", "Texas", "Ohio">>
StateAbbreviations == <<"AK", "HI", "TX", "OH">>
StateFips == <<"02", "15", "48", "39">>
CountyNames == <<"Kauai", "Maui", "Travis", "Adams">>

\* the JSONB bag that repeats every reserved key with a foreign value
CollidingItems ==
    ("name" :> Str("should-not-appear")) @@
    ("abbreviation" :> Str("extra-abbreviation")) @@
    ("fips_code" :> Str("extra-fips")) @@
    ("id" :> Str("extra-id")) @@
    ("state_id" :> Str("extra-state")) @@
    ("population" :> IntV(9)) @@
    ("area_sq_miles" :> FloatV(9)) @@
    ("note" :> Str("from-feed"))

\* column values of a row with profile p
ProfilePopulation(p) ==
    CASE p = 2 -> IntV(0) [] p = 3 -> IntV(7) [] p = 5 -> IntV(0) [] OTHER -> None
ProfileArea(p) == CASE p = 2 -> FloatV(5) [] p = 4 -> FloatV(8) [] OTHER -> None
ProfileProperties(p) ==
    CASE p = 1 -> None
      [] p = 2 -> Dict(CollidingItems)
      [] p = 3 -> Dict(("note" :> Dict(EmptyItems)) @@ ("population" :> IntV(9)))
      [] p = 5 -> Dict("note" :> Str("from-feed"))
      [] OTHER -> Dict(("name" :> None) @@ ("population" :> IntV(9)))
ProfileGeometry(shape, p) ==
    [tag |-> "geom", shape |-> shape,
     ext |-> IF p = 2 THEN <<1, 1, 2, 2>> ELSE <<0, 0, 1, 1>>,
     wellformed |-> (p # 3)]

\* the profile of row k in database variant v
Variants == << <<1, 2, 3>>, <<2, 3, 1>>, <<3, 1, 2>>, <<1, 4, 2>>, <<5, 4, 5>> >>
Profile(k, v) == Variants[v][((k - 1) % 3) + 1]

State(k, v) ==
    [id |-> Uuid(k),
     name |-> Str(StateNames[k]),
     abbreviation |-> Str(StateAbbreviations[k]),
     fips_code |-> Str(StateFips[k]),
     population |-> ProfilePopulation(Profile(k, v)),
     area_sq_miles |-> ProfileArea(Profile(k, v)),
     geometry |-> ProfileGeometry(k, Profile(k, v)),
     properties |-> ProfileProperties(Profile(k, v))]

\* county k belongs to state 1 in the odd variants and is dealt round the
\* states in the even ones
CountyParent(k, ns, v) == IF v % 2 = 1 THEN 1 ELSE ((k - 1) % ns) + 1

County(k, ns, v) ==
    [id |-> Uuid(10 + k),
     name |-> Str(CountyNames[k]),
     fips_code |-> Str(StateFips[CountyParent(k, ns, v)] \o "00" \o ToString(k)),
     state_id |-> Uuid(CountyParent(k, ns, v)),
     area_sq_miles |-> ProfileArea(Profile(k + 1, v)),
     population |-> ProfilePopulation(Profile(k + 1, v)),
     geometry |-> ProfileGeometry(10 + k, Profile(k + 1, v)),
     properties |-> ProfileProperties(Profile(k + 1, v))]

\* storage iteration order is not id order: the even variants list backwards
Position(i, n, v) == IF v % 2 = 0 THEN n + 1 - i ELSE i

Database(ns, nc, v) ==
    [states |-> [i \in 1..ns |-> State(Position(i, ns, v), v)],
     counties |-> [i \in 1..nc |-> County(Position(i, nc, v), ns, v)]]

\* counties.state_id is a foreign key: no county without a state
Databases ==
    {Database(ns, nc, v) : ns \in 1..MaxRows, nc \in 0..MaxRows, v \in DOMAIN Variants}
    \cup {Database(0, 0, 1)}

(***************************************************************************)
(* PostGIS, as the session `db` sees it                                    *)
(***************************************************************************)
Min(a, b) == IF a <= b THEN a ELSE b
Max(a, b) == IF a >= b THEN a ELSE b

\* ST_Intersects(geometry, ST_MakeEnvelope(a, b, c, d, 4326)): the envelope
\* is the rectangle with corners (a, b) and (c, d)
ST_Intersects(geometry, envelope) ==
    LET a == envelope.args[1].f  b == envelope.args[2].f
        c == envelope.args[3].f  d == envelope.args[4].f
        e == geometry.ext
    IN  /\ e[1] <= Max(a, c) /\ Min(a, c) <= e[3]
        /\ e[2] <= Max(b, d) /\ Min(b, d) <= e[4]

\* ST_SimplifyPreserveTopology(geometry, tolerance)
ST_SimplifyPreserveTopology(geometry, tol) ==
    [tag |-> "simplified", of |-> geometry, tol |-> tol]

\* query.filter(...).all(): the rows of a table that pass the filters, in
\* storage order.  parent = None: no state filter; bbox = None: no bbox.
RECURSIVE SelectRows(_, _, _)
SelectRows(table, parent, bbox) ==
    IF table = <<>> THEN <<>>
    ELSE LET row == Head(table)
             keep == /\ (parent # None => str(row.state_id) = parent)
                     /\ (bbox # None => ST_Intersects(row.geometry, bbox))
         IN  (IF keep THEN <<row>> ELSE <<>>) \o SelectRows(Tail(table), parent, bbox)

\* db.scalar(text("SELECT ST_SimplifyPreserveTopology(geometry, tol)
\*                 FROM <table> WHERE id = :id")): None when no row matches
SimplifyScalar(table, id, tol) ==
    IF \E i \in DOMAIN table : table[i].id = id
    THEN LET i == CHOOSE i \in DOMAIN table : table[i].id = id
         IN  ST_SimplifyPreserveTopology(table[i].geometry, tol)
    ELSE None

(***************************************************************************)
(* services/database_service.py: what both query methods share             *)
(***************************************************************************)
\* the copy that keeps only the string values of the bag
DictUpdate_strings_only(properties, bag) ==
    LET copied == {k \in DOMAIN bag.items : bag.items[k].tag = "str"}
    IN  [k \in DOMAIN properties \cup copied |->
            IF k \in copied THEN bag.items[k] ELSE properties[k]]

\* for key, value in bag.items(): properties[key] = value
DictUpdate(properties, bag) ==
    [k \in DOMAIN properties \cup DOMAIN bag.items |->
        IF k \in DOMAIN bag.items THEN bag.items[k] ELSE properties[k]]

\* properties[key] = value, when the column is truthy
SetIfNotNone_truthy(properties, key, value) ==
    IF Truthy(value) THEN (key :> value) @@ properties ELSE properties

\* properties[key] = value, when the column is not None
SetIfNotNone(properties, key, value) ==
    IF value # None THEN (key :> value) @@ properties ELSE properties

\* the dict that leaves out the fips_code of a row that has none
StateProperties_omitting_null_code(state) ==
    LET seeded == ("name" :> state.name) @@
                  ("abbreviation" :> state.abbreviation) @@
                  ("id" :> str(state.id))
        withCode == SetIfNotNone(seeded, "fips_code", state.fips_code)
        withPopulation == SetIfNotNone(withCode, "population", state.population)
        withArea == SetIfNotNone(withPopulation, "area_sq_miles", state.area_sq_miles)
    IN  IF state.properties # None
        THEN DictUpdate(withArea, state.properties)
        ELSE withArea

\* the dict `properties` built for one state row
StateProperties(state) ==
    LET seeded == ("name" :> state.name) @@
                  ("abbreviation" :> state.abbreviation) @@
                  ("fips_code" :> state.fips_code) @@
                  ("id" :> str(state.id))
        withPopulation == SetIfNotNone(seeded, "population", state.population)
        withArea == SetIfNotNone(withPopulation, "area_sq_miles", state.area_sq_miles)
    IN  IF state.properties # None
        THEN DictUpdate(withArea, state.properties)
        ELSE withArea

\* the dict `properties` built for one county row
CountyProperties(county) ==
    LET seeded == ("name" :> county.name) @@
                  ("fips_code" :> county.fips_code) @@
                  ("state_id" :> str(county.state_id)) @@
                  ("id" :> str(county.id))
        withPopulation == SetIfNotNone(seeded, "population", county.population)
        withArea == SetIfNotNone(withPopulation, "area_sq_miles", county.area_sq_miles)
    IN  IF county.properties # None
        THEN DictUpdate(withArea, county.properties)
        ELSE withArea

\* the resolution with the zoom level consulted first
ResolveTolerance_zoom_first(tol, zoom_level) ==
    IF zoom_level # None
    THEN get_simplification_tolerance(zoom_level)
    ELSE tol

\* if tolerance is None and zoom_level is not None: tolerance = get_...(zoom_level)
ResolveTolerance(tol, zoom_level) ==
    IF tol = None /\ zoom_level # None
    THEN get_simplification_tolerance(zoom_level)
    ELSE tol

\* the simplify condition with `>= 0` typed for `> 0`
UseSimplified_nonnegative(include_geometry, tol) ==
    include_geometry /\ tol # None /\ tol.f >= 0

\* if include_geometry: if tolerance is not None and tolerance > 0: (simplify)
UseSimplified(include_geometry, tol) ==
    include_geometry /\ tol # None /\ tol.f > 0

\* schemas.GeoJSONFeature(id=..., geometry=..., properties=...)
GeoJSONFeature(id, geometry, properties) ==
    [type |-> "Feature", id |-> id, geometry |-> geometry, properties |-> properties]

\* the log entries of the session calls
\* schemas.GeoJSONFeatureCollection(features=features)
GeoJSONFeatureCollection(fs) == [type |-> "FeatureCollection", features |-> fs]

AllCall(table, parent, bbox, raised) ==
    [op |-> "all", table |-> table, parent |-> parent, bbox |-> bbox, raised |-> raised]
ScalarCall(table, id, tol, returned, raised) ==
    [op |-> "scalar", table |-> table, id |-> id, tol |-> tol,
     returned |-> returned, raised |-> raised]
LookupCall(op, column, value, raised) ==
    [op |-> op, table |-> "states", column |-> column, value |-> value, raised |-> raised]

Returned(fs) == [status |-> "ok", features |-> fs]
Raised(error) == [status |-> "error", error |-> error]

\* the geometry step that ignores the include_geometry flag
ProcessGeometry_always(table, row, include_geometry, tol) ==
    IF UseSimplified(TRUE, tol)
    THEN LET simplified_geom == SimplifyScalar(db[table], row.id, tol)
             conv == convert_geometry_to_geojson(simplified_geom)
         IN  [conv |-> conv,
              scalars |-> <<ScalarCall(table, row.id, tol, simplified_geom, FALSE)>>,
              converted |-> <<[input |-> simplified_geom, output |-> conv]>>]
    ELSE LET conv == convert_geometry_to_geojson(row.geometry)
         IN  [conv |-> conv, scalars |-> <<>>,
              converted |-> <<[input |-> row.geometry, output |-> conv]>>]

\* the geometry step that simplifies but converts the row's raw geometry
ProcessGeometry_raw(table, row, include_geometry, tol) ==
    IF UseSimplified(include_geometry, tol)
    THEN LET simplified_geom == SimplifyScalar(db[table], row.id, tol)
             conv == convert_geometry_to_geojson(row.geometry)
         IN  [conv |-> conv,
              scalars |-> <<ScalarCall(table, row.id, tol, simplified_geom, FALSE)>>,
              converted |-> <<[input |-> row.geometry, output |-> conv]>>]
    ELSE IF include_geometry
         THEN LET conv == convert_geometry_to_geojson(row.geometry)
              IN  [conv |-> conv, scalars |-> <<>>,
                   converted |-> <<[input |-> row.geometry, output |-> conv]>>]
         ELSE [conv |-> [raised |-> FALSE, value |-> create_placeholder_geometry],
               scalars |-> <<>>, converted |-> <<>>]

\* the processing that raises when the simplification request finds no row
ProcessGeometry_requiring_row(table, row, include_geometry, tol) ==
    IF UseSimplified(include_geometry, tol)
    THEN LET simplified_geom == SimplifyScalar(db[table], row.id, tol)
             conv == IF simplified_geom = None
                     THEN [raised |-> TRUE, value |-> None]
                     ELSE convert_geometry_to_geojson(simplified_geom)
         IN  [conv |-> conv,
              scalars |-> <<ScalarCall(table, row.id, tol, simplified_geom, FALSE)>>,
              converted |-> <<[input |-> simplified_geom, output |-> conv]>>]
    ELSE IF include_geometry
         THEN LET conv == convert_geometry_to_geojson(row.geometry)
              IN  [conv |-> conv, scalars |-> <<>>,
                   converted |-> <<[input |-> row.geometry, output |-> conv]>>]
         ELSE [conv |-> [raised |-> FALSE, value |-> create_placeholder_geometry],
               scalars |-> <<>>, converted |-> <<>>]

\* "Process geometry based on include_geometry flag" for one row: the
\* geometry handed to the Feature, with the calls it took to get it
ProcessGeometry(table, row, include_geometry, tol) ==
    IF UseSimplified(include_geometry, tol)
    THEN LET simplified_geom == SimplifyScalar(db[table], row.id, tol)
             conv == convert_geometry_to_geojson(simplified_geom)
         IN  [conv |-> conv,
              scalars |-> <<ScalarCall(table, row.id, tol, simplified_geom, FALSE)>>,
              converted |-> <<[input |-> simplified_geom, output |-> conv]>>]
    ELSE IF include_geometry
         THEN LET conv == convert_geometry_to_geojson(row.geometry)
              IN  [conv |-> conv, scalars |-> <<>>,
                   converted |-> <<[input |-> row.geometry, output |-> conv]>>]
         ELSE [conv |-> [raised |-> FALSE, value |-> create_placeholder_geometry],
               scalars |-> <<>>, converted |-> <<>>]

(***************************************************************************)
(* The arguments a caller may pass                                         *)
(***************************************************************************)
QueryTolerances == {None, FloatV(-1), FloatV(0), FloatV(700)}
QueryZooms == {None} \cup {IntV(z) : z \in 6..MaxQueryZoom}
QueryCoords == {None} \cup {FloatV(c) : c \in 0..MaxQueryCoord}
QueryStateIds == {None, Str("")} \cup {str(Uuid(k)) : k \in 1..(MaxRows + 1)}

\* what the callers of Spec pass
DefaultCallers ==
    [tolerances |-> QueryTolerances, zooms |-> QueryZooms, coords |-> QueryCoords]

Requests(method, stateIds) ==
    [method : {method}, include_geometry : BOOLEAN, state_id : stateIds,
     tolerance : callers.tolerances, zoom_level : callers.zooms,
     min_lon : callers.coords, min_lat : callers.coords,
     max_lon : callers.coords, max_lat : callers.coords]

\* the arguments of the next call of `method`: any, or, once a call has
\* completed, the arguments of that call again
Callable(method, stateIds) ==
    IF history = <<>> THEN Requests(method, stateIds)
    ELSE {r \in {history[Len(history)].req} : r.method = method}

NoRequest == [method |-> "none"]
NoResult == [status |-> "none"]
NoOther == [pc |-> "none"]
NoJob == [pc |-> "none"]

Init ==
    /\ db \in Databases
    /\ pc = "idle"
    /\ req = NoRequest
    /\ rows = <<>>
    /\ tolerance = None
    /\ hawaii_state_id = None
    /\ idx = 0
    /\ features = <<>>
    /\ result = NoResult
    /\ dbCalls = <<>>
    /\ conversions = <<>>
    /\ unitCalls = <<>>
    /\ history = <<>>
    /\ callers = DefaultCallers
    /\ other = NoOther
    /\ job = NoJob

(***************************************************************************)
(* DatabaseService.get_all_states                                          *)
(***************************************************************************)
\* lines 51-72: build the query, run it, settle the tolerance
StatesQuery ==
    /\ pc = "idle"
    /\ \E r \in Callable("get_all_states", {None}) :
        LET bbox_filter == create_bounding_box_filter(r.min_lon, r.min_lat,
                                                      r.max_lon, r.max_lat)
            bbox == IF Truthy(bbox_filter) THEN bbox_filter ELSE None
        IN  /\ req' = r
            /\ rows' = SelectRows(db.states, None, bbox)
            /\ dbCalls' = Append(dbCalls, AllCall("states", None, bbox, FALSE))
            /\ tolerance' = ResolveTolerance(r.tolerance, r.zoom_level)
    /\ pc' = "states_loop"
    /\ UNCHANGED <<db, hawaii_state_id, idx, features, result, conversions, unitCalls, history, callers, other, job>>

\* line 61 raises: the storage error reaches the caller
StatesQueryFails ==
    /\ pc = "idle"
    /\ \E r \in Callable("get_all_states", {None}) :
        LET bbox_filter == create_bounding_box_filter(r.min_lon, r.min_lat,
                                                      r.max_lon, r.max_lat)
            bbox == IF Truthy(bbox_filter) THEN bbox_filter ELSE None
        IN  /\ req' = r
            /\ dbCalls' = Append(dbCalls, AllCall("states", None, bbox, TRUE))
    /\ result' = Raised("StorageError")
    /\ pc' = "failed"
    /\ UNCHANGED <<db, rows, tolerance, hawaii_state_id, idx, features,
                   conversions, unitCalls, history, callers, other, job>>

\* the loop body that skips a row whose geometry failed to convert
StatesRow_skipping ==
    /\ pc = "states_loop"
    /\ idx < Len(rows)
    /\ LET state == rows[idx + 1]
           properties == StateProperties(state)
           g == ProcessGeometry("states", state, req.include_geometry, tolerance)
       IN  /\ dbCalls' = dbCalls \o g.scalars
           /\ conversions' = conversions \o g.converted
           /\ idx' = idx + 1
           /\ features' = IF req.include_geometry /\ ToShapeFails(state.geometry)
                          THEN features
                          ELSE Append(features,
                                   GeoJSONFeature(str(state.id), g.conv.value, properties))
    /\ UNCHANGED <<db, req, rows, tolerance, hawaii_state_id, result, pc, unitCalls, history, callers, other, job>>

\* lines 75-123: one pass of the for-loop
StatesRow ==
    /\ pc = "states_loop"
    /\ idx < Len(rows)
    /\ LET state == rows[idx + 1]
           properties == StateProperties(state)
           g == ProcessGeometry("states", state, req.include_geometry, tolerance)
       IN  /\ dbCalls' = dbCalls \o g.scalars
           /\ conversions' = conversions \o g.converted
           /\ IF g.conv.raised
              THEN /\ result' = Raised("ConversionError")
                   /\ pc' = "failed"
                   /\ UNCHANGED <<features, idx>>
              ELSE /\ features' = Append(features,
                                    GeoJSONFeature(str(state.id), g.conv.value, properties))
                   /\ idx' = idx + 1
                   /\ UNCHANGED <<result, pc>>
    /\ UNCHANGED <<db, req, rows, tolerance, hawaii_state_id, unitCalls, history, callers, other, job>>

\* line 107 raises and the loop catches it, substituting the placeholder
StatesRowFails_masked ==
    /\ pc = "states_loop"
    /\ idx < Len(rows)
    /\ UseSimplified(req.include_geometry, tolerance)
    /\ dbCalls' = Append(dbCalls,
                    ScalarCall("states", rows[idx + 1].id, tolerance, None, TRUE))
    /\ features' = Append(features,
                      GeoJSONFeature(str(rows[idx + 1].id), create_placeholder_geometry,
                                     StateProperties(rows[idx + 1])))
    /\ idx' = idx + 1
    /\ UNCHANGED <<db, req, rows, tolerance, hawaii_state_id, result, pc,
                   conversions, unitCalls, history, callers, other, job>>

\* line 107 raises: the storage error reaches the caller
StatesRowFails ==
    /\ pc = "states_loop"
    /\ idx < Len(rows)
    /\ UseSimplified(req.include_geometry, tolerance)
    /\ dbCalls' = Append(dbCalls,
                    ScalarCall("states", rows[idx + 1].id, tolerance, None, TRUE))
    /\ result' = Raised("StorageError")
    /\ pc' = "failed"
    /\ UNCHANGED <<db, req, rows, tolerance, hawaii_state_id, idx, features,
                   conversions, unitCalls, history, callers, other, job>>

\* the return that hands back the list in reverse
StatesReturn_reversed ==
    /\ pc = "states_loop"
    /\ idx = Len(rows)
    /\ IF \E i \in DOMAIN features : NameLowerRaises(features[i].properties)
       THEN /\ result' = Raised("AttributeError")
            /\ pc' = "failed"
       ELSE /\ result' = Returned([i \in DOMAIN features |->
                                      features[Len(features) + 1 - i]])
            /\ pc' = "done"
    /\ UNCHANGED <<db, req, rows, tolerance, hawaii_state_id, idx, features,
                   dbCalls, conversions, unitCalls, history, callers, other, job>>

\* lines 125-136: the Alaska / Hawaii counts, then return
StatesReturn ==
    /\ pc = "states_loop"
    /\ idx = Len(rows)
    /\ IF \E i \in DOMAIN features : NameLowerRaises(features[i].properties)
       THEN /\ result' = Raised("AttributeError")
            /\ pc' = "failed"
       ELSE /\ result' = Returned(features)
            /\ pc' = "done"
    /\ UNCHANGED <<db, req, rows, tolerance, hawaii_state_id, idx, features,
                   dbCalls, conversions, unitCalls, history, callers, other, job>>

(***************************************************************************)
(* DatabaseService.get_counties                                            *)
(***************************************************************************)
\* the query that filters whenever state_id is not None
CountiesQuery_filtering_empty ==
    /\ pc = "idle"
    /\ \E r \in Callable("get_counties", QueryStateIds) :
        LET parent == IF r.state_id # None THEN r.state_id ELSE None
            bbox_filter == create_bounding_box_filter(r.min_lon, r.min_lat,
                                                      r.max_lon, r.max_lat)
            bbox == IF Truthy(bbox_filter) THEN bbox_filter ELSE None
        IN  /\ req' = r
            /\ rows' = SelectRows(db.counties, parent, bbox)
            /\ dbCalls' = Append(dbCalls, AllCall("counties", parent, bbox, FALSE))
            /\ tolerance' = ResolveTolerance(r.tolerance, r.zoom_level)
    /\ pc' = "counties_hawaii"
    /\ UNCHANGED <<db, hawaii_state_id, idx, features, result, conversions,
                   unitCalls, history, callers, other, job>>

\* lines 167-191: build the query, run it, settle the tolerance
CountiesQuery ==
    /\ pc = "idle"
    /\ \E r \in Callable("get_counties", QueryStateIds) :
        LET parent == IF Truthy(r.state_id) THEN r.state_id ELSE None
            bbox_filter == create_bounding_box_filter(r.min_lon, r.min_lat,
                                                      r.max_lon, r.max_lat)
            bbox == IF Truthy(bbox_filter) THEN bbox_filter ELSE None
        IN  /\ req' = r
            /\ rows' = SelectRows(db.counties, parent, bbox)
            /\ dbCalls' = Append(dbCalls, AllCall("counties", parent, bbox, FALSE))
            /\ tolerance' = ResolveTolerance(r.tolerance, r.zoom_level)
    /\ pc' = "counties_hawaii"
    /\ UNCHANGED <<db, hawaii_state_id, idx, features, result, conversions, unitCalls, history, callers, other, job>>

\* line 181 raises: the storage error reaches the caller
CountiesQueryFails ==
    /\ pc = "idle"
    /\ \E r \in Callable("get_counties", QueryStateIds) :
        LET parent == IF Truthy(r.state_id) THEN r.state_id ELSE None
            bbox_filter == create_bounding_box_filter(r.min_lon, r.min_lat,
                                                      r.max_lon, r.max_lat)
            bbox == IF Truthy(bbox_filter) THEN bbox_filter ELSE None
        IN  /\ req' = r
            /\ dbCalls' = Append(dbCalls, AllCall("counties", parent, bbox, TRUE))
    /\ result' = Raised("StorageError")
    /\ pc' = "failed"
    /\ UNCHANGED <<db, rows, tolerance, hawaii_state_id, idx, features,
                   conversions, unitCalls, history, callers, other, job>>

\* db.query(models.State).filter(column == value): the matching states
StatesWhere(column, value) == SelectSeq(db.states, LAMBDA s : s[column] = value)

\* lines 193-203: the state the Hawaii logging is about, or None
HawaiiState ==
    IF Len(StatesWhere("name", Str("Hawaii"))) > 0
    THEN Head(StatesWhere("name", Str("Hawaii")))
    ELSE IF Len(StatesWhere("fips_code", Str("15"))) > 0
         THEN Head(StatesWhere("fips_code", Str("15")))
         ELSE None

\* lines 193-212: the session calls of the Hawaii logging, in order
HawaiiCalls ==
    LET byName == Len(StatesWhere("name", Str("Hawaii"))) > 0
        byFips == Len(StatesWhere("fips_code", Str("15"))) > 0
        id == IF HawaiiState = None THEN None ELSE str(HawaiiState.id)
    IN  <<LookupCall("count", "name", Str("Hawaii"), FALSE)>>
        \o (IF byName THEN <<LookupCall("first", "name", Str("Hawaii"), FALSE)>>
            ELSE <<LookupCall("count", "fips_code", Str("15"), FALSE)>>
                 \o (IF byFips
                     THEN <<LookupCall("first", "fips_code", Str("15"), FALSE)>>
                     ELSE <<>>))
        \o (IF Truthy(id) THEN <<AllCall("counties", id, None, FALSE)>> ELSE <<>>)

CountiesHawaii ==
    /\ pc = "counties_hawaii"
    /\ hawaii_state_id' = IF HawaiiState = None THEN None ELSE str(HawaiiState.id)
    /\ dbCalls' = dbCalls \o HawaiiCalls
    /\ pc' = "counties_loop"
    /\ UNCHANGED <<db, req, rows, tolerance, idx, features, result,
                   conversions, unitCalls, history, callers, other, job>>

\* one of the session calls of lines 195-208 raises
CountiesHawaiiFails ==
    /\ pc = "counties_hawaii"
    /\ \E j \in DOMAIN HawaiiCalls :
        dbCalls' = dbCalls \o SubSeq(HawaiiCalls, 1, j - 1)
                           \o <<[HawaiiCalls[j] EXCEPT !.raised = TRUE]>>
    /\ result' = Raised("StorageError")
    /\ pc' = "failed"
    /\ UNCHANGED <<db, req, rows, tolerance, hawaii_state_id, idx, features,
                   conversions, unitCalls, history, callers, other, job>>

\* the loop body that builds the properties in the row's own bag and
\* commits the session
CountiesRow_aliasing ==
    /\ pc = "counties_loop"
    /\ idx < Len(rows)
    /\ LET county == rows[idx + 1]
           properties == CountyProperties(county)
           written == [county EXCEPT !.properties = Dict(properties)]
           g == ProcessGeometry("counties", county, req.include_geometry, tolerance)
       IN  /\ dbCalls' = dbCalls \o g.scalars
           /\ conversions' = conversions \o g.converted
           /\ rows' = [rows EXCEPT ![idx + 1] = written]
           /\ db' = [db EXCEPT !.counties =
                        [k \in DOMAIN db.counties |->
                            IF db.counties[k].id = county.id THEN written
                            ELSE db.counties[k]]]
           /\ IF g.conv.raised
              THEN /\ result' = Raised("ConversionError")
                   /\ pc' = "failed"
                   /\ UNCHANGED <<features, idx>>
              ELSE /\ features' = Append(features,
                                    GeoJSONFeature(str(county.id), g.conv.value, properties))
                   /\ idx' = idx + 1
                   /\ UNCHANGED <<result, pc>>
    /\ UNCHANGED <<req, tolerance, hawaii_state_id, unitCalls, history, callers, other, job>>

\* lines 215-262: one pass of the for-loop
CountiesRow ==
    /\ pc = "counties_loop"
    /\ idx < Len(rows)
    /\ LET county == rows[idx + 1]
           properties == CountyProperties(county)
           g == ProcessGeometry("counties", county, req.include_geometry, tolerance)
       IN  /\ dbCalls' = dbCalls \o g.scalars
           /\ conversions' = conversions \o g.converted
           /\ IF g.conv.raised
              THEN /\ result' = Raised("ConversionError")
                   /\ pc' = "failed"
                   /\ UNCHANGED <<features, idx>>
              ELSE /\ features' = Append(features,
                                    GeoJSONFeature(str(county.id), g.conv.value, properties))
                   /\ idx' = idx + 1
                   /\ UNCHANGED <<result, pc>>
    /\ UNCHANGED <<db, req, rows, tolerance, hawaii_state_id, unitCalls, history, callers, other, job>>

\* line 246 raises: the storage error reaches the caller
CountiesRowFails ==
    /\ pc = "counties_loop"
    /\ idx < Len(rows)
    /\ UseSimplified(req.include_geometry, tolerance)
    /\ dbCalls' = Append(dbCalls,
                    ScalarCall("counties", rows[idx + 1].id, tolerance, None, TRUE))
    /\ result' = Raised("StorageError")
    /\ pc' = "failed"
    /\ UNCHANGED <<db, req, rows, tolerance, hawaii_state_id, idx, features,
                   conversions, unitCalls, history, callers, other, job>>

\* `state_id not in state_counts` raises TypeError on an unhashable key
Unhashable(v) == v.tag = "dict"

\* the return that treats an empty feature list as "not found"
CountiesReturn_not_found ==
    /\ pc = "counties_loop"
    /\ idx = Len(rows)
    /\ IF features = <<>>
       THEN /\ result' = Raised("NotFound")
            /\ pc' = "failed"
       ELSE /\ result' = Returned(features)
            /\ pc' = "done"
    /\ UNCHANGED <<db, req, rows, tolerance, hawaii_state_id, idx, features,
                   dbCalls, conversions, unitCalls, history, callers, other, job>>

\* lines 264-277: count the features per state_id, then return
CountiesReturn ==
    /\ pc = "counties_loop"
    /\ idx = Len(rows)
    /\ IF \E i \in DOMAIN features :
            Unhashable(DictGet(features[i].properties, "state_id", None))
       THEN /\ result' = Raised("TypeError")
            /\ pc' = "failed"
       ELSE /\ result' = Returned(features)
            /\ pc' = "done"
    /\ UNCHANGED <<db, req, rows, tolerance, hawaii_state_id, idx, features,
                   dbCalls, conversions, unitCalls, history, callers, other, job>>

Next ==
    \/ StatesQuery \/ StatesQueryFails \/ StatesRow \/ StatesRowFails \/ StatesReturn
    \/ CountiesQuery \/ CountiesQueryFails \/ CountiesHawaii \/ CountiesHawaiiFails
    \/ CountiesRow \/ CountiesRowFails \/ CountiesReturn

Spec == Init /\ [][Next]_vars

(***************************************************************************)
(* Callers that pass rectangles, inverted ones included                    *)
(***************************************************************************)
RectangleCallers ==
    [tolerances |-> {None, FloatV(700)}, zooms |-> {None},
     coords |-> {None} \cup {FloatV(c) : c \in 0..MaxRectCoord}]

InitRectangle ==
    /\ db \in Databases
    /\ pc = "idle"
    /\ req = NoRequest
    /\ rows = <<>>
    /\ tolerance = None
    /\ hawaii_state_id = None
    /\ idx = 0
    /\ features = <<>>
    /\ result = NoResult
    /\ dbCalls = <<>>
    /\ conversions = <<>>
    /\ unitCalls = <<>>
    /\ history = <<>>
    /\ callers = RectangleCallers
    /\ other = NoOther
    /\ job = NoJob

SpecRectangle == InitRectangle /\ [][Next]_vars

(***************************************************************************)
(* Two requests at once.  Each request has its own session (get_db) and    *)
(* its own call of the static method, so its own parameters and locals;    *)
(* the server runs one of them at a time and may switch between them       *)
(* between any two session calls.  `other` holds the suspended one.        *)
(***************************************************************************)
ConcurrentCallers ==
    [tolerances |-> {None, FloatV(700)}, zooms |-> {None}, coords |-> {None}]

\* the parameters, locals and result of a call that has not started
IdleFrame ==
    [pc |-> "idle", req |-> NoRequest, rows |-> <<>>, tolerance |-> None,
     hawaii_state_id |-> None, idx |-> 0, features |-> <<>>,
     result |-> NoResult, dbCalls |-> <<>>, conversions |-> <<>>]

\* the parameters, locals and result of the running call
RunningFrame ==
    [pc |-> pc, req |-> req, rows |-> rows, tolerance |-> tolerance,
     hawaii_state_id |-> hawaii_state_id, idx |-> idx, features |-> features,
     result |-> result, dbCalls |-> dbCalls, conversions |-> conversions]

InitConcurrent ==
    /\ db \in Databases
    /\ pc = "idle"
    /\ req = NoRequest
    /\ rows = <<>>
    /\ tolerance = None
    /\ hawaii_state_id = None
    /\ idx = 0
    /\ features = <<>>
    /\ result = NoResult
    /\ dbCalls = <<>>
    /\ conversions = <<>>
    /\ unitCalls = <<>>
    /\ history = <<>>
    /\ callers = ConcurrentCallers
    /\ other = IdleFrame
    /\ job = NoJob

\* the switch between two requests that append to one list `features`
Switch_sharing_features ==
    /\ other.pc # "none"
    /\ other' = RunningFrame
    /\ pc' = other.pc
    /\ req' = other.req
    /\ rows' = other.rows
    /\ tolerance' = other.tolerance
    /\ hawaii_state_id' = other.hawaii_state_id
    /\ idx' = other.idx
    /\ result' = other.result
    /\ dbCalls' = other.dbCalls
    /\ conversions' = other.conversions
    /\ UNCHANGED <<db, features, unitCalls, history, callers, job>>

\* the server suspends the running request and resumes the other
Switch ==
    /\ other.pc # "none"
    /\ other' = RunningFrame
    /\ pc' = other.pc
    /\ req' = other.req
    /\ rows' = other.rows
    /\ tolerance' = other.tolerance
    /\ hawaii_state_id' = other.hawaii_state_id
    /\ idx' = other.idx
    /\ features' = other.features
    /\ result' = other.result
    /\ dbCalls' = other.dbCalls
    /\ conversions' = other.conversions
    /\ UNCHANGED <<db, unitCalls, history, callers, job>>

NextConcurrent == Next \/ Switch

SpecConcurrent == InitConcurrent /\ [][NextConcurrent]_vars

(***************************************************************************)
(* A second call: the method has returned or raised, and the caller calls   *)
(* it again; parameters and locals belong to the new call                   *)
(***************************************************************************)
\* a second call that finds the list `features` of the first
CallAgain_keeping_features ==
    /\ pc \in {"done", "failed"}
    /\ Len(history) < MaxRepeats
    /\ history' = Append(history, [req |-> req, result |-> result])
    /\ pc' = "idle"
    /\ req' = NoRequest
    /\ rows' = <<>>
    /\ tolerance' = None
    /\ hawaii_state_id' = None
    /\ idx' = 0
    /\ result' = NoResult
    /\ dbCalls' = <<>>
    /\ conversions' = <<>>
    /\ UNCHANGED <<db, features, unitCalls, callers, other, job>>

CallAgain ==
    /\ pc \in {"done", "failed"}
    /\ Len(history) < MaxRepeats
    /\ history' = Append(history, [req |-> req, result |-> result])
    /\ pc' = "idle"
    /\ req' = NoRequest
    /\ rows' = <<>>
    /\ tolerance' = None
    /\ hawaii_state_id' = None
    /\ idx' = 0
    /\ features' = <<>>
    /\ result' = NoResult
    /\ dbCalls' = <<>>
    /\ conversions' = <<>>
    /\ UNCHANGED <<db, unitCalls, callers, other, job>>

NextRepeat == Next \/ CallAgain

SpecRepeat == Init /\ [][NextRepeat]_vars

(***************************************************************************)
(* The storage of end-to-end scenario A: one state, Hawaii, abbreviation   *)
(* HI, stored without a FIPS code, and its counties.  The states table is  *)
(* older than models/geographic.py (update_states_schema.py renames its    *)
(* column area_sq_mi), and the statement that created it is not in the     *)
(* repository, so whether it admits a NULL fips_code is taken from the     *)
(* scenario.                                                               *)
(***************************************************************************)
ScenarioAState(v) == [State(2, v) EXCEPT !.fips_code = None]

ScenarioACounty(k, v) == [County(k, 1, v) EXCEPT !.state_id = Uuid(2)]

ScenarioADatabases ==
    {[states |-> <<ScenarioAState(v)>>,
      counties |-> [i \in 1..nc |-> ScenarioACounty(Position(i, nc, v), v)]] :
        nc \in 0..MaxRows, v \in DOMAIN Variants}

InitScenarioA ==
    /\ db \in ScenarioADatabases
    /\ pc = "idle"
    /\ req = NoRequest
    /\ rows = <<>>
    /\ tolerance = None
    /\ hawaii_state_id = None
    /\ idx = 0
    /\ features = <<>>
    /\ result = NoResult
    /\ dbCalls = <<>>
    /\ conversions = <<>>
    /\ unitCalls = <<>>
    /\ history = <<>>
    /\ callers = DefaultCallers
    /\ other = NoOther
    /\ job = NoJob

SpecScenarioA == InitScenarioA /\ [][Next]_vars

(***************************************************************************)
(* routes/geographic.py: the handlers of /geographic/states and            *)
(* /geographic/counties.  They do not call DatabaseService: each lists the *)
(* rows and builds the Features itself, with to_shape and mapping called   *)
(* directly.                                                               *)
(***************************************************************************)
RouteRequests(method, stateIds) ==
    [method : {method}, include_geometry : BOOLEAN, state_id : stateIds]

\* lines 81-91, 184-194: the geometry of one Feature, or the exception of to_shape
RouteGeometry(row, include_geometry) ==
    IF include_geometry
    THEN IF ToShapeFails(row.geometry)
         THEN [raised |-> TRUE, value |-> None]
         ELSE [raised |-> FALSE, value |-> mapping(row.geometry)]
    ELSE [raised |-> FALSE, value |-> [type |-> "Point", coordinates |-> <<0, 0>>]]

\* return schemas.GeoJSONFeatureCollection(features=features)
RouteReturned(fs) == [status |-> "ok", collection |-> GeoJSONFeatureCollection(fs)]

\* what the handler makes of the listed rows
RouteOutcome(method, listed, include_geometry) ==
    LET fs == [i \in 1..Len(listed) |->
                  GeoJSONFeature(str(listed[i].id),
                      RouteGeometry(listed[i], include_geometry).value,
                      IF method = "route_states" THEN StateProperties(listed[i])
                      ELSE CountyProperties(listed[i]))]
    IN  IF \E i \in DOMAIN listed : RouteGeometry(listed[i], include_geometry).raised
        THEN Raised("ConversionError")
        ELSE IF method = "route_counties"
                /\ \E i \in DOMAIN fs :
                     Unhashable(DictGet(fs[i].properties, "state_id", None))
             THEN Raised("TypeError")
             ELSE RouteReturned(fs)

\* lines 29-115: get_states
RouteStates ==
    /\ pc = "idle"
    /\ \E r \in RouteRequests("route_states", {None}) :
        /\ req' = r
        /\ rows' = db.states
        /\ dbCalls' = <<AllCall("states", None, None, FALSE)>>
        /\ result' = RouteOutcome("route_states", db.states, r.include_geometry)
        /\ pc' = IF RouteOutcome("route_states", db.states, r.include_geometry).status = "ok"
                 THEN "done" ELSE "failed"
    /\ UNCHANGED <<db, tolerance, hawaii_state_id, idx, features, conversions,
                   unitCalls, history, callers, other, job>>

\* line 37 raises: the storage error reaches the framework
RouteStatesFails ==
    /\ pc = "idle"
    /\ \E r \in RouteRequests("route_states", {None}) : req' = r
    /\ dbCalls' = <<AllCall("states", None, None, TRUE)>>
    /\ result' = Raised("StorageError")
    /\ pc' = "failed"
    /\ UNCHANGED <<db, rows, tolerance, hawaii_state_id, idx, features, conversions,
                   unitCalls, history, callers, other, job>>

\* lines 137-141: the first state named Hawaii or with FIPS code 15, or None
RouteHawaiiState ==
    LET found == SelectSeq(db.states,
                     LAMBDA s : s.name = Str("Hawaii") \/ s.fips_code = Str("15"))
    IN  IF found = <<>> THEN None ELSE Head(found)

\* lines 126-147: the session calls of get_counties, in order
RouteCountiesCalls(parent) ==
    <<AllCall("counties", parent, None, FALSE),
      LookupCall("first", "name or fips_code", Str("Hawaii or 15"), FALSE)>>
    \o (IF RouteHawaiiState = None THEN <<>>
        ELSE <<AllCall("counties", str(RouteHawaiiState.id), None, FALSE)>>)

\* lines 117-216: get_counties
RouteCounties ==
    /\ pc = "idle"
    /\ \E r \in RouteRequests("route_counties", QueryStateIds) :
        LET parent == IF Truthy(r.state_id) THEN r.state_id ELSE None
            listed == SelectRows(db.counties, parent, None)
        IN  /\ req' = r
            /\ rows' = listed
            /\ dbCalls' = RouteCountiesCalls(parent)
            /\ hawaii_state_id' = IF RouteHawaiiState = None THEN None
                                  ELSE str(RouteHawaiiState.id)
            /\ result' = RouteOutcome("route_counties", listed, r.include_geometry)
            /\ pc' = IF RouteOutcome("route_counties", listed, r.include_geometry).status = "ok"
                     THEN "done" ELSE "failed"
    /\ UNCHANGED <<db, tolerance, idx, features, conversions,
                   unitCalls, history, callers, other, job>>

\* one of the session calls of lines 131-146 raises
RouteCountiesFails ==
    /\ pc = "idle"
    /\ \E r \in RouteRequests("route_counties", QueryStateIds) :
        LET parent == IF Truthy(r.state_id) THEN r.state_id ELSE None
            calls == RouteCountiesCalls(parent)
        IN  /\ req' = r
            /\ \E j \in DOMAIN calls :
                  dbCalls' = SubSeq(calls, 1, j - 1) \o <<[calls[j] EXCEPT !.raised = TRUE]>>
    /\ result' = Raised("StorageError")
    /\ pc' = "failed"
    /\ UNCHANGED <<db, rows, tolerance, hawaii_state_id, idx, features, conversions,
                   unitCalls, history, callers, other, job>>

NextRoutes == RouteStates \/ RouteStatesFails \/ RouteCounties \/ RouteCountiesFails

SpecRoutes == Init /\ [][NextRoutes]_vars

(***************************************************************************)
(* The ingestion scripts: ingest_all_counties.py, ingest_geographic_data.py *)
(***************************************************************************)
\* the properties of the features a counties GeoJSON file may hold
CountyFeedProperties ==
    << ("STATE" :> Str("02")) @@ ("COUNTY" :> Str("013")) @@
       ("NAME" :> Str("Aleutians East")) @@ ("GEOID" :> Str("02013")),
       ("STATE" :> IntV(15)) @@ ("COUNTY" :> IntV(3)) @@
       ("NAME" :> Str("Honolulu")) @@ ("FIPS" :> Str("15003")),
       ("STATE" :> Str("99")) @@ ("COUNTY" :> Str("001")) @@
       ("NAME" :> Str("Nowhere")) @@ ("fips" :> Str("99001")),
       ("COUNTY" :> Str("001")) @@ ("name" :> Str("Stateless")) >>

FeedFeature(k) == [properties |-> CountyFeedProperties[k], geometry |-> 30 + k]

\* load_geojson: None when the file cannot be read, else the collection
FeatureCollection(fs) == [tag |-> "dict", features |-> fs]

CountyFeeds ==
    {None} \cup
    {FeatureCollection(fs) :
        fs \in UNION {[1..n -> {FeedFeature(k) : k \in DOMAIN CountyFeedProperties}] :
                         n \in 0..MaxFeed}}

\* str(value)
PyStr(v) == IF v.tag = "int" THEN ToString(v.n) ELSE v.s

\* s.zfill(width)
RECURSIVE zfill(_, _)
zfill(s, width) == IF Len(s) >= width THEN s ELSE zfill("0" \o s, width)

\* the dict state_mapping / state_ids: fips_code -> id of the stored states
StateMapping ==
    [f \in {db.states[i].fips_code : i \in DOMAIN db.states} |->
        (CHOOSE s \in {db.states[i] : i \in DOMAIN db.states} : s.fips_code = f).id]

\* as AllCountiesRow, but a county of an unknown state is given a stored state
AllCountiesRow_defaulting(feature, state_mapping, id) ==
    LET p == feature.properties
        rawState == DictGet(p, "STATE", None)
        rawCounty == DictGet(p, "COUNTY", None)
        state_fips == zfill(PyStr(rawState), 2)
        county_fips == zfill(PyStr(rawCounty), 3)
        name == DictGet(p, "NAME", None)
    IN  IF ~Truthy(rawState) \/ ~Truthy(rawCounty) \/ ~Truthy(name) THEN None
        ELSE [id |-> id, name |-> name,
              fips_code |-> Str(state_fips \o county_fips),
              state_id |-> IF Str(state_fips) \in DOMAIN state_mapping
                           THEN state_mapping[Str(state_fips)]
                           ELSE state_mapping[CHOOSE f \in DOMAIN state_mapping : TRUE],
              area_sq_miles |-> DictGet(p, "CENSUSAREA", None),
              population |-> None,
              geometry |-> [tag |-> "geom", shape |-> feature.geometry,
                            ext |-> <<0, 0, 1, 1>>, wellformed |-> TRUE],
              properties |-> Dict(p)]

\* ingest_all_counties.py, lines 107-181: the row to insert, or None to skip
AllCountiesRow(feature, state_mapping, id) ==
    LET p == feature.properties
        rawState == DictGet(p, "STATE", None)
        rawCounty == DictGet(p, "COUNTY", None)
        state_fips == zfill(PyStr(rawState), 2)
        county_fips == zfill(PyStr(rawCounty), 3)
        name == DictGet(p, "NAME", None)
    IN  IF ~Truthy(rawState) \/ ~Truthy(rawCounty) THEN None
        ELSE IF Str(state_fips) \notin DOMAIN state_mapping THEN None
        ELSE IF ~Truthy(name) THEN None
        ELSE [id |-> id, name |-> name,
              fips_code |-> Str(state_fips \o county_fips),
              state_id |-> state_mapping[Str(state_fips)],
              area_sq_miles |-> DictGet(p, "CENSUSAREA", None),
              population |-> None,
              geometry |-> [tag |-> "geom", shape |-> feature.geometry,
                            ext |-> <<0, 0, 1, 1>>, wellformed |-> TRUE],
              properties |-> Dict(p)]

\* ingest_geographic_data.py, lines 173-240: the row to insert, or None to skip
GeographicDataRow(feature, state_ids, id, counties_inserted) ==
    LET p == feature.properties
        name == IF "NAME" \in DOMAIN p THEN p["NAME"]
                ELSE IF "name" \in DOMAIN p THEN p["name"]
                ELSE Str("County " \o ToString(counties_inserted + 1))
        fips_code == IF "FIPS" \in DOMAIN p THEN p["FIPS"]
                     ELSE IF "fips" \in DOMAIN p THEN p["fips"]
                     ELSE IF "GEOID" \in DOMAIN p THEN p["GEOID"]
                     ELSE None
    IN  IF fips_code = None THEN None
        ELSE IF fips_code.tag # "str" THEN None
        ELSE LET state_fips == Str(SubSeq(fips_code.s, 1, Min(2, Len(fips_code.s))))
             IN  IF state_fips \notin DOMAIN state_ids THEN None
                 ELSE [id |-> id, name |-> name, fips_code |-> fips_code,
                       state_id |-> state_ids[state_fips],
                       area_sq_miles |-> DictGet(p, "area_sq_mi", DictGet(p, "AREA", None)),
                       population |-> DictGet(p, "population",
                                              DictGet(p, "POPULATION", None)),
                       geometry |-> [tag |-> "geom", shape |-> feature.geometry,
                                     ext |-> <<0, 0, 1, 1>>, wellformed |-> TRUE],
                       properties |-> Dict(p)]

\* the constraints of the counties table (models/geographic.py 38-40,
\* create_counties_table.py): name and state_id NOT NULL, fips_code
\* VARCHAR(5) UNIQUE, state_id a foreign key of states
CountyAccepted(row) ==
    /\ row.name.tag = "str"
    /\ row.fips_code.tag = "str" /\ Len(row.fips_code.s) <= 5
    /\ \A i \in DOMAIN db.counties : db.counties[i].fips_code # row.fips_code
    /\ \E i \in DOMAIN db.states : db.states[i].id = row.state_id

CountyScripts == {"ingest_all_counties", "ingest_geographic_data"}

\* the run of a script that has not started
IdleJob(script, caller) ==
    [pc |-> "idle", script |-> script, caller |-> caller, feed |-> None,
     state_mapping |-> <<>>, pos |-> 0, inserted |-> 0, log |-> <<>>,
     started |-> <<>>, results |-> <<>>, deleted |-> <<>>,
     raised |-> FALSE, returned |-> None]

\* a step function is entered
StepStarted(j, step) == [j EXCEPT !.started = Append(@, step)]

\* as StepDone, but the run goes on to the next step after a failure
StepDone_continuing(j, step, ok, nextPc) ==
    [j EXCEPT !.results = Append(@, [step |-> step, ok |-> ok]),
              !.pc = IF j.caller = "ingest_all_data" THEN nextPc ELSE "returned",
              !.returned = IF j.caller = "ingest_all_data" /\ nextPc # "returned"
                           THEN @ ELSE ok]

\* a step function returns `ok`. Run on its own the script ends there; in
\* ingest_all_data.py, lines 48-72, `if not step(): return False`, else on
\* to the next step, and `return True` after the last
StepDone(j, step, ok, nextPc) ==
    [j EXCEPT !.results = Append(@, [step |-> step, ok |-> ok]),
              !.pc = IF ok /\ j.caller = "ingest_all_data" THEN nextPc ELSE "returned",
              !.returned = IF ok /\ j.caller = "ingest_all_data" /\ nextPc # "returned"
                           THEN @ ELSE ok]

InitIngestCounties ==
    /\ db \in Databases
    /\ pc = "idle"
    /\ req = NoRequest
    /\ rows = <<>>
    /\ tolerance = None
    /\ hawaii_state_id = None
    /\ idx = 0
    /\ features = <<>>
    /\ result = NoResult
    /\ dbCalls = <<>>
    /\ conversions = <<>>
    /\ unitCalls = <<>>
    /\ history = <<>>
    /\ callers = DefaultCallers
    /\ other = NoOther
    /\ job \in {[IdleJob(s, "main") EXCEPT !.pc = "counties"] : s \in CountyScripts}

\* ingest_counties up to the loop: load the file, (ingest_geographic_data:
\* delete the counties,) read the states
IngestCountiesStart ==
    /\ job.pc = "counties"
    /\ \E feed \in CountyFeeds :
        LET cleared == IF job.script = "ingest_geographic_data" /\ feed # None
                       THEN <<>> ELSE db.counties
        IN  /\ db' = [db EXCEPT !.counties = cleared]
            /\ job' = IF feed = None \/ DOMAIN StateMapping = {}
                      THEN StepDone([StepStarted(job, "ingest_counties")
                                        EXCEPT !.feed = feed],
                                    "ingest_counties", FALSE, "indexes")
                      ELSE [StepStarted(job, "ingest_counties")
                               EXCEPT !.pc = "counties_loop", !.feed = feed,
                                      !.state_mapping = StateMapping,
                                      !.pos = 0, !.inserted = 0]
    /\ UNCHANGED <<queryVars, unitCalls, history, callers, other>>

\* the outer `except Exception`: the engine, the DELETE or the SELECT raised
IngestCountiesStartFails ==
    /\ job.pc = "counties"
    /\ \E deleted \in {FALSE, job.script = "ingest_geographic_data"} :
        db' = [db EXCEPT !.counties = IF deleted THEN <<>> ELSE @]
    /\ job' = StepDone([StepStarted(job, "ingest_counties") EXCEPT !.raised = TRUE],
                       "ingest_counties", FALSE, "indexes")
    /\ UNCHANGED <<queryVars, unitCalls, history, callers, other>>

\* the row the running script builds from a feature; uuid.uuid4() is fresh
IngestRow(feature) ==
    IF job.script = "ingest_all_counties"
    THEN AllCountiesRow(feature, job.state_mapping, Uuid(20 + job.pos + 1))
    ELSE GeographicDataRow(feature, job.state_mapping, Uuid(20 + job.pos + 1),
                           job.inserted)

LogEntry(feature, outcome) == [feature |-> feature, outcome |-> outcome]

\* one iteration of the loop: `continue` without an INSERT, or the INSERT,
\* which the table's constraints may reject (caught: the row is skipped)
IngestCountiesRow ==
    /\ job.pc = "counties_loop"
    /\ job.pos < Len(job.feed.features)
    /\ LET feature == job.feed.features[job.pos + 1]
           row == IngestRow(feature)
           stored == row # None /\ CountyAccepted(row)
       IN  /\ db' = [db EXCEPT !.counties = IF stored THEN Append(@, row) ELSE @]
           /\ job' = [job EXCEPT
                        !.pos = @ + 1,
                        !.inserted = IF stored THEN @ + 1 ELSE @,
                        !.log = Append(@, LogEntry(feature,
                                   IF stored THEN "inserted" ELSE "skipped"))]
    /\ UNCHANGED <<queryVars, unitCalls, history, callers, other>>

\* the INSERT raises for a reason of the storage's own: caught, row skipped
IngestCountiesRowFails ==
    /\ job.pc = "counties_loop"
    /\ job.pos < Len(job.feed.features)
    /\ IngestRow(job.feed.features[job.pos + 1]) # None
    /\ job' = [job EXCEPT !.pos = @ + 1,
                          !.log = Append(@, LogEntry(job.feed.features[job.pos + 1], "skipped"))]
    /\ UNCHANGED <<db, queryVars, unitCalls, history, callers, other>>

\* after the loop: return True
IngestCountiesReturn ==
    /\ job.pc = "counties_loop"
    /\ job.pos = Len(job.feed.features)
    /\ job' = StepDone(job, "ingest_counties", TRUE, "indexes")
    /\ UNCHANGED <<db, queryVars, unitCalls, history, callers, other>>

NextIngestCounties ==
    \/ IngestCountiesStart \/ IngestCountiesStartFails
    \/ IngestCountiesRow \/ IngestCountiesRowFails
    \/ IngestCountiesReturn

SpecIngestCounties == InitIngestCounties /\ [][NextIngestCounties]_vars

(***************************************************************************)
(* ingest_all_data.py, with ingest_all_states.py, create_spatial_indexes.py *)
(***************************************************************************)
\* clear_all_data, first transaction: DELETE FROM counties
ClearCounties ==
    /\ job.pc = "idle"
    /\ job.caller = "ingest_all_data"
    /\ db' = [db EXCEPT !.counties = <<>>]
    /\ job' = [StepStarted(job, "clear_all_data")
                  EXCEPT !.pc = "clear_states", !.deleted = Append(@, "counties")]
    /\ UNCHANGED <<queryVars, unitCalls, history, callers, other>>

\* the engine or the first DELETE raises: clear_all_data returns False
ClearCountiesFails ==
    /\ job.pc = "idle"
    /\ job.caller = "ingest_all_data"
    /\ job' = StepDone([StepStarted(job, "clear_all_data") EXCEPT !.raised = TRUE],
                       "clear_all_data", FALSE, "states")
    /\ UNCHANGED <<db, queryVars, unitCalls, history, callers, other>>

\* clear_all_data, second transaction: DELETE FROM states, then return True
ClearStates ==
    /\ job.pc = "clear_states"
    /\ db' = [db EXCEPT !.states = <<>>]
    /\ job' = StepDone([job EXCEPT !.deleted = Append(@, "states")],
                       "clear_all_data", TRUE, "states")
    /\ UNCHANGED <<queryVars, unitCalls, history, callers, other>>

\* the second DELETE raises: the counties stay deleted, the states stay
ClearStatesFails ==
    /\ job.pc = "clear_states"
    /\ job' = StepDone([job EXCEPT !.raised = TRUE], "clear_all_data", FALSE, "states")
    /\ UNCHANGED <<db, queryVars, unitCalls, history, callers, other>>

\* the properties of the features a states GeoJSON file may hold
StateFeedProperties ==
    << ("STATE" :> Str("02")) @@ ("NAME" :> Str("Alaska")),
       ("STATE" :> IntV(15)) @@ ("NAME" :> Str("Hawaii")) @@ ("CENSUSAREA" :> FloatV(6)),
       ("STATE" :> Str("99")) @@ ("NAME" :> Str("Nowhere")) >>

StateFeeds ==
    {None} \cup
    {FeatureCollection(fs) :
        fs \in UNION {[1..n -> {[properties |-> StateFeedProperties[k], geometry |-> 40 + k] :
                                   k \in DOMAIN StateFeedProperties}] : n \in 0..MaxFeed}}

\* ingest_all_states.py, lines 63-76, for the states of the feeds
STATE_FIPS_TO_ABBR == ("02" :> "AK") @@ ("15" :> "HI") @@ ("39" :> "OH") @@ ("48" :> "TX")

\* ingest_all_states.py, lines 109-167: the row to insert, or None to skip
AllStatesRow(feature, id) ==
    LET p == feature.properties
        rawState == DictGet(p, "STATE", None)
        state_fips == zfill(PyStr(rawState), 2)
        state_name == DictGet(p, "NAME", None)
    IN  IF ~Truthy(rawState) THEN None
        ELSE IF state_fips \notin DOMAIN STATE_FIPS_TO_ABBR THEN None
        ELSE IF ~Truthy(state_name) THEN None
        ELSE [id |-> id, name |-> state_name,
              abbreviation |-> Str(STATE_FIPS_TO_ABBR[state_fips]),
              fips_code |-> Str(state_fips),
              population |-> None,
              area_sq_miles |-> DictGet(p, "CENSUSAREA", None),
              geometry |-> [tag |-> "geom", shape |-> feature.geometry,
                            ext |-> <<0, 0, 1, 1>>, wellformed |-> TRUE],
              properties |-> None]

\* the constraints of the states table (models/geographic.py 13-15)
StateAccepted(row, stored) ==
    /\ row.name.tag = "str"
    /\ \A i \in DOMAIN stored :
        /\ stored[i].fips_code # row.fips_code
        /\ stored[i].abbreviation # row.abbreviation

\* the loop of ingest_states over fs[n..]: each row is skipped, rejected by
\* a constraint, lost to a storage error (n in broken), or inserted
RECURSIVE InsertStates(_, _, _, _)
InsertStates(fs, n, broken, stored) ==
    IF n > Len(fs) THEN stored
    ELSE LET row == AllStatesRow(fs[n], Uuid(40 + n))
         IN  IF row # None /\ n \notin broken /\ StateAccepted(row, stored)
             THEN InsertStates(fs, n + 1, broken, Append(stored, row))
             ELSE InsertStates(fs, n + 1, broken, stored)

\* ingest_states: returns False without a file, else True after the loop
IngestStates ==
    /\ job.pc = "states"
    /\ \E feed \in StateFeeds :
        IF feed = None
        THEN /\ job' = StepDone(StepStarted(job, "ingest_states"),
                                "ingest_states", FALSE, "counties")
             /\ db' = db
        ELSE \E broken \in SUBSET (1..Len(feed.features)) :
                /\ db' = [db EXCEPT !.states = InsertStates(feed.features, 1, broken, @)]
                /\ job' = StepDone(StepStarted(job, "ingest_states"),
                                   "ingest_states", TRUE, "counties")
    /\ UNCHANGED <<queryVars, unitCalls, history, callers, other>>

\* the outer `except Exception` of ingest_states: return False
IngestStatesFails ==
    /\ job.pc = "states"
    /\ job' = StepDone([StepStarted(job, "ingest_states") EXCEPT !.raised = TRUE],
                       "ingest_states", FALSE, "counties")
    /\ UNCHANGED <<db, queryVars, unitCalls, history, callers, other>>

\* create_spatial_indexes: one transaction of CREATE INDEX IF NOT EXISTS
CreateSpatialIndexes ==
    /\ job.pc = "indexes"
    /\ job' = StepDone(StepStarted(job, "create_spatial_indexes"),
                       "create_spatial_indexes", TRUE, "returned")
    /\ UNCHANGED <<db, queryVars, unitCalls, history, callers, other>>

\* a statement raises: create_spatial_indexes returns False
CreateSpatialIndexesFails ==
    /\ job.pc = "indexes"
    /\ job' = StepDone([StepStarted(job, "create_spatial_indexes") EXCEPT !.raised = TRUE],
                       "create_spatial_indexes", FALSE, "returned")
    /\ UNCHANGED <<db, queryVars, unitCalls, history, callers, other>>

InitIngestAll ==
    /\ db \in Databases
    /\ pc = "idle"
    /\ req = NoRequest
    /\ rows = <<>>
    /\ tolerance = None
    /\ hawaii_state_id = None
    /\ idx = 0
    /\ features = <<>>
    /\ result = NoResult
    /\ dbCalls = <<>>
    /\ conversions = <<>>
    /\ unitCalls = <<>>
    /\ history = <<>>
    /\ callers = DefaultCallers
    /\ other = NoOther
    /\ job = IdleJob("ingest_all_counties", "ingest_all_data")

NextIngestAll ==
    \/ ClearCounties \/ ClearCountiesFails
    \/ ClearStates \/ ClearStatesFails
    \/ IngestStates \/ IngestStatesFails
    \/ IngestCountiesStart \/ IngestCountiesStartFails
    \/ IngestCountiesRow \/ IngestCountiesRowFails
    \/ IngestCountiesReturn
    \/ CreateSpatialIndexes \/ CreateSpatialIndexesFails

SpecIngestAll == InitIngestAll /\ [][NextIngestAll]_vars

(***************************************************************************)
(* A query while ingest_all_data.py clears the tables                      *)
(***************************************************************************)
InitClearing ==
    /\ db \in Databases
    /\ pc = "idle"
    /\ req = NoRequest
    /\ rows = <<>>
    /\ tolerance = None
    /\ hawaii_state_id = None
    /\ idx = 0
    /\ features = <<>>
    /\ result = NoResult
    /\ dbCalls = <<>>
    /\ conversions = <<>>
    /\ unitCalls = <<>>
    /\ history = <<>>
    /\ callers = ConcurrentCallers
    /\ other = NoOther
    /\ job = IdleJob("ingest_all_counties", "ingest_all_data")

\* the steps of the query and the two transactions of clear_all_data, in
\* any interleaving
NextClearing ==
    \/ Next
    \/ ClearCounties \/ ClearCountiesFails
    \/ ClearStates \/ ClearStatesFails

SpecClearing == InitClearing /\ [][NextClearing]_vars

(***************************************************************************)
(* What a query method returns when no session call raises, as a function  *)
(* of its arguments and the store                                          *)
(***************************************************************************)
TableOf(r) == IF r.method = "get_all_states" THEN "states" ELSE "counties"

ExpectedRows(r) ==
    LET bbox_filter == create_bounding_box_filter(r.min_lon, r.min_lat,
                                                  r.max_lon, r.max_lat)
    IN  SelectRows(db[TableOf(r)],
                   IF Truthy(r.state_id) THEN r.state_id ELSE None,
                   IF Truthy(bbox_filter) THEN bbox_filter ELSE None)

ExpectedFeature(r, row) ==
    GeoJSONFeature(str(row.id),
        ProcessGeometry(TableOf(r), row, r.include_geometry,
                        ResolveTolerance(r.tolerance, r.zoom_level)).conv.value,
        IF r.method = "get_all_states" THEN StateProperties(row)
        ELSE CountyProperties(row))

ExpectedOutcome(r) ==
    LET listed == ExpectedRows(r)
        fs == [i \in 1..Len(listed) |-> ExpectedFeature(r, listed[i])]
    IN  IF r.method = "get_all_states"
           /\ \E i \in DOMAIN fs : NameLowerRaises(fs[i].properties)
        THEN Raised("AttributeError")
        ELSE IF r.method = "get_counties"
                /\ \E i \in DOMAIN fs :
                     Unhashable(DictGet(fs[i].properties, "state_id", None))
             THEN Raised("TypeError")
             ELSE Returned(fs)

(***************************************************************************)
(* Direct calls of the pure helpers of utils/geo_utils.py                  *)
(***************************************************************************)
UnitZooms == {None} \cup {IntV(z) : z \in (0 - MaxZoom)..MaxZoom}
UnitCoords == {None} \cup {FloatV(c) : c \in (0 - MaxCoord)..MaxCoord}

InitUnit ==
    /\ db = Database(0, 0, 1)
    /\ pc = "idle"
    /\ req = NoRequest
    /\ rows = <<>>
    /\ tolerance = None
    /\ hawaii_state_id = None
    /\ idx = 0
    /\ features = <<>>
    /\ result = NoResult
    /\ dbCalls = <<>>
    /\ conversions = <<>>
    /\ unitCalls = <<>>
    /\ history = <<>>
    /\ callers = DefaultCallers
    /\ other = NoOther
    /\ job = NoJob

\* a caller invokes get_simplification_tolerance(zoom_level)
ResolveCall ==
    /\ Len(unitCalls) < MaxResolveCalls
    /\ \E z \in UnitZooms :
        unitCalls' = Append(unitCalls,
            [fn |-> "get_simplification_tolerance", zoom_level |-> z,
             returned |-> get_simplification_tolerance(z)])
    /\ UNCHANGED <<db, queryVars, history, callers, other, job>>

\* a caller invokes create_bounding_box_filter(min_lon, min_lat, max_lon, max_lat)
BuildCall ==
    /\ Len(unitCalls) < MaxBuildCalls
    /\ \E a \in UnitCoords, b \in UnitCoords, c \in UnitCoords, d \in UnitCoords :
        unitCalls' = Append(unitCalls,
            [fn |-> "create_bounding_box_filter", args |-> <<a, b, c, d>>,
             returned |-> create_bounding_box_filter(a, b, c, d)])
    /\ UNCHANGED <<db, queryVars, history, callers, other, job>>

\* the geometries a caller may hand to the codec: None, a stored geometry,
\* or what ST_SimplifyPreserveTopology made of one
UnitGeometries ==
    LET stored == {ProfileGeometry(k, p) : k \in 1..MaxRows, p \in 1..4}
    IN  {None} \cup stored
        \cup {ST_SimplifyPreserveTopology(g, t) : g \in stored, t \in {FloatV(5), FloatV(2000)}}

\* a caller invokes convert_geometry_to_geojson(geometry_column)
ConvertCall ==
    /\ Len(unitCalls) < MaxConvertCalls
    /\ \E g \in UnitGeometries :
        LET conv == convert_geometry_to_geojson(g)
        IN  unitCalls' = Append(unitCalls,
                [fn |-> "convert_geometry_to_geojson", geometry_column |-> g,
                 raised |-> conv.raised, returned |-> conv.value])
    /\ UNCHANGED <<db, queryVars, history, callers, other, job>>

SpecCodec == InitUnit /\ [][ConvertCall]_vars

SpecTolerance == InitUnit /\ [][ResolveCall]_vars
SpecBBox == InitUnit /\ [][BuildCall]_vars

(***************************************************************************)
(* Properties of the tolerance selector (checked under SpecTolerance)      *)
(***************************************************************************)
\* C5: get_simplification_tolerance is non-increasing in zoom over the
\* integers 1..20 (z1 <= z2 implies resolve(z1) >= resolve(z2)), and every
\* value it returns, for any input, is strictly positive.
C5_NonIncreasingPositive ==
    /\ \A i \in DOMAIN unitCalls : unitCalls[i].returned.f > 0
    /\ \A i \in DOMAIN unitCalls, j \in DOMAIN unitCalls :
        LET a == unitCalls[i]  b == unitCalls[j]
        IN  (/\ a.zoom_level # None /\ b.zoom_level # None
             /\ a.zoom_level.n \in 1..20 /\ b.zoom_level.n \in 1..20
             /\ a.zoom_level.n <= b.zoom_level.n)
            => a.returned.f >= b.returned.f

\* two calls in 1..20 with different zooms and a strictly smaller tolerance
\* for the larger zoom
C5_Witness ==
    \E i \in DOMAIN unitCalls, j \in DOMAIN unitCalls :
        /\ unitCalls[i].zoom_level # None /\ unitCalls[j].zoom_level # None
        /\ unitCalls[i].zoom_level.n \in 1..20
        /\ unitCalls[j].zoom_level.n \in 1..20
        /\ unitCalls[i].zoom_level.n < unitCalls[j].zoom_level.n
        /\ unitCalls[i].returned.f > unitCalls[j].returned.f

\* the table of section 4.1 of the specification, for zooms 6..15
SpecifiedSteps == <<3000, 2000, 1000, 500, 300, 200, 100, 50, 30, 10>>

\* C6: get_simplification_tolerance returns the specified value for every
\* input: 0.01 for None, 0.05 for every zoom <= 5 (zero and negative zooms
\* included), 0.00005 for every zoom >= 16, the tabled step for 6..15; it
\* returns a float for every integer.
C6_MatchesTable ==
    \A i \in DOMAIN unitCalls :
        LET z == unitCalls[i].zoom_level
            r == unitCalls[i].returned
        IN  /\ r.tag = "float"
            /\ z = None => r = FloatV(1000)
            /\ (z # None /\ z.n <= 5) => r = FloatV(5000)
            /\ (z # None /\ z.n >= 16) => r = FloatV(5)
            /\ (z # None /\ z.n \in 6..15) => r = FloatV(SpecifiedSteps[z.n - 5])

\* one call with a negative zoom and one with a tabled zoom have returned
C6_Witness ==
    /\ \E i \in DOMAIN unitCalls :
        /\ unitCalls[i].zoom_level # None
        /\ unitCalls[i].zoom_level.n < 0
        /\ unitCalls[i].returned = FloatV(5000)
    /\ \E i \in DOMAIN unitCalls :
        /\ unitCalls[i].zoom_level # None
        /\ unitCalls[i].zoom_level.n = 10
        /\ unitCalls[i].returned = FloatV(300)

(***************************************************************************)
(* Properties of the bounding-box filter (checked under SpecBBox)          *)
(***************************************************************************)
\* C7: create_bounding_box_filter returns a predicate (not None) if and
\* only if none of the four coordinates is None, whatever the present
\* values are (0 and negative numbers included).
C7_PredicateIffAllPresent ==
    \A i \in DOMAIN unitCalls :
        (unitCalls[i].returned # None)
            <=> (\A k \in 1..4 : unitCalls[i].args[k] # None)

\* a call with four present coordinates, a 0 and a negative among them,
\* has returned a predicate
C7_Witness ==
    \E i \in DOMAIN unitCalls :
        /\ \A k \in 1..4 : unitCalls[i].args[k] # None
        /\ \E k \in 1..4 : unitCalls[i].args[k] = FloatV(0)
        /\ \E k \in 1..4 : unitCalls[i].args[k] # None /\ unitCalls[i].args[k].f < 0
        /\ unitCalls[i].returned # None

(***************************************************************************)
(* Properties of the geometry codec (checked under SpecCodec)              *)
(***************************************************************************)
\* whether the conversion of a non-None geometry fails: the geometry, or
\* the one it was simplified from, is malformed
Malformed(g) == IF g.tag = "simplified" THEN ~g.of.wellformed ELSE ~g.wellformed

Placeholder == [type |-> "Point", coordinates |-> <<0, 0>>]

\* C9: convert_geometry_to_geojson never raises; it returns the placeholder
\* {type: Point, coordinates: [0, 0]} for None and for every input whose
\* conversion fails, and the converted geometry (never the placeholder)
\* for an input that converts.
C9_CodecNeverRaises ==
    \A i \in DOMAIN unitCalls :
        LET g == unitCalls[i].geometry_column
        IN  /\ ~unitCalls[i].raised
            /\ g = None => unitCalls[i].returned = Placeholder
            /\ (g # None /\ Malformed(g)) => unitCalls[i].returned = Placeholder
            /\ (g # None /\ ~Malformed(g)) =>
                 /\ unitCalls[i].returned.type = "MultiPolygon"
                 /\ unitCalls[i].returned.coordinates[1] =
                      (IF g.tag = "simplified" THEN g.of.shape ELSE g.shape)

\* the codec has been called on None and on a malformed geometry, and has
\* returned the placeholder both times
C9_Witness ==
    /\ \E i \in DOMAIN unitCalls :
        unitCalls[i].geometry_column = None /\ unitCalls[i].returned = Placeholder
    /\ \E i \in DOMAIN unitCalls :
        /\ unitCalls[i].geometry_column # None
        /\ Malformed(unitCalls[i].geometry_column)
        /\ unitCalls[i].returned = Placeholder

(***************************************************************************)
(* Properties of the query methods (checked under Spec)                    *)
(***************************************************************************)
Running == pc # "idle"
Table == IF req.method = "get_all_states" THEN "states" ELSE "counties"

\* the simplification requests made so far, and those that returned
ScalarCalls == SelectSeq(dbCalls, LAMBDA c : c.op = "scalar")
AnsweredScalarCalls == SelectSeq(dbCalls, LAMBDA c : c.op = "scalar" /\ ~c.raised)

\* steps 1-3 of section 4.4: the reserved keys an entity sets, with its values
ReservedProperties(row) ==
    LET seeded == IF Table = "states"
                  THEN ("name" :> row.name) @@ ("abbreviation" :> row.abbreviation) @@
                       ("fips_code" :> row.fips_code) @@ ("id" :> str(row.id))
                  ELSE ("name" :> row.name) @@ ("fips_code" :> row.fips_code) @@
                       ("state_id" :> str(row.state_id)) @@ ("id" :> str(row.id))
        population == IF row.population # None
                      THEN ("population" :> row.population) ELSE EmptyItems
        area == IF row.area_sq_miles # None
                THEN ("area_sq_miles" :> row.area_sq_miles) ELSE EmptyItems
    IN  seeded @@ population @@ area

\* C1: reserved keys win over the free-form bag: when a row's properties
\* bag holds a key that the row itself sets (name, abbreviation, fips_code,
\* id, state_id, non-null population / area_sq_miles), the Feature carries
\* the row's own value under that key and the bag's value for that key
\* appears nowhere in the Feature's properties.
C1_ReservedKeysWin ==
    Running =>
        \A i \in DOMAIN features :
            LET row == rows[i]
                own == ReservedProperties(row)
                out == features[i].properties
            IN  row.properties # None =>
                  \A k \in DOMAIN own \cap DOMAIN row.properties.items :
                      /\ out[k] = own[k]
                      /\ \A k2 \in DOMAIN out : out[k2] # row.properties.items[k]

\* what the resolved tolerance of the running request is, by section 4.5
\* step 3: the explicit one, else the zoom-derived one, else none
Resolved ==
    IF req.tolerance # None THEN req.tolerance
    ELSE IF req.zoom_level # None THEN get_simplification_tolerance(req.zoom_level)
    ELSE None

\* C2: when a tolerance is passed, the tolerance the query settles on
\* (once its listing call has returned) is that tolerance and every
\* simplification request of the query carries exactly it, whatever
\* zoom_level is passed.
C2_ExplicitToleranceWins ==
    (Running /\ req.tolerance # None) =>
        /\ (dbCalls[1].raised \/ tolerance = req.tolerance)
        /\ \A i \in DOMAIN ScalarCalls : ScalarCalls[i].tol = req.tolerance

\* a simplification request has been made in a query that passed both a
\* tolerance and a zoom level
C2_Witness ==
    /\ Running
    /\ req.tolerance # None /\ req.zoom_level # None
    /\ Len(ScalarCalls) > 0
    /\ ScalarCalls[1].tol # get_simplification_tolerance(req.zoom_level)

\* the Feature geometries of a finished query are the conversions of the
\* rows' raw stored geometries
RawGeometries ==
    \A i \in DOMAIN features :
        features[i].geometry = convert_geometry_to_geojson(rows[i].geometry).value

NoSimplification ==
    \/ (req.tolerance # None /\ req.tolerance.f <= 0)
    \/ (req.tolerance = None /\ req.zoom_level = None)

\* C3 as stated: a finished query has issued simplification requests if
\* and only if include_geometry is true and the resolved tolerance is > 0;
\* with tolerance 0, a negative tolerance, or neither tolerance nor zoom
\* level it has issued none and (geometry being included) every Feature's
\* geometry is the conversion of the row's raw geometry.
C3_SimplifyIffPositive ==
    pc = "done" =>
        /\ (Len(ScalarCalls) > 0)
              <=> (req.include_geometry /\ Resolved # None /\ Resolved.f > 0)
        /\ NoSimplification =>
              /\ Len(ScalarCalls) = 0
              /\ req.include_geometry => RawGeometries

\* C3 amended: a simplification request is only ever issued when
\* include_geometry is true and the resolved tolerance is > 0, and a
\* finished query that retrieved at least one row under those conditions
\* has issued some; a query that retrieved no row issues none.  With
\* tolerance 0, a negative tolerance, or neither tolerance nor zoom level
\* no request is issued and (geometry being included) every Feature's
\* geometry is the conversion of the row's raw geometry.
C3_SimplifyIffPositiveAndRows ==
    /\ (Running /\ Len(ScalarCalls) > 0) =>
          (req.include_geometry /\ Resolved # None /\ Resolved.f > 0 /\ Len(rows) > 0)
    /\ pc = "done" =>
        /\ (Len(ScalarCalls) > 0)
              <=> (/\ req.include_geometry /\ Resolved # None /\ Resolved.f > 0
                   /\ Len(rows) > 0)
        /\ NoSimplification =>
              /\ Len(ScalarCalls) = 0
              /\ req.include_geometry => RawGeometries

\* a query with tolerance 0 and a zoom level has finished over two rows
\* with geometry included
C3_Witness ==
    /\ pc = "done"
    /\ req.include_geometry
    /\ req.tolerance = FloatV(0) /\ req.zoom_level # None
    /\ Len(rows) = 2
    /\ Len(ScalarCalls) = 0
    /\ features[1].geometry # Placeholder

\* C4: with include_geometry true, no tolerance and zoom_level = z, there
\* is exactly one simplification request per retrieved row: the answered
\* requests are those of the rows processed so far, in order, each with
\* the row's id and the tolerance of z (0.02 for z = 7); no further
\* request is made except one that raises and ends the query; and each
\* Feature's geometry is the conversion of what its own request returned.
C4_OneRequestPerRow ==
    (Running /\ req.include_geometry /\ req.tolerance = None /\ req.zoom_level # None) =>
        /\ Len(AnsweredScalarCalls) = idx
        /\ Len(features) = idx
        /\ pc = "done" => idx = Len(rows)
        /\ Len(ScalarCalls) <= idx + 1
        /\ Len(ScalarCalls) = idx + 1 => (pc = "failed" /\ ScalarCalls[idx + 1].raised)
        /\ \A i \in DOMAIN ScalarCalls :
              /\ ScalarCalls[i].id = rows[i].id
              /\ ScalarCalls[i].table = Table
              /\ ScalarCalls[i].tol = get_simplification_tolerance(req.zoom_level)
              /\ req.zoom_level = IntV(7) => ScalarCalls[i].tol = FloatV(2000)
        /\ \A i \in DOMAIN features :
              /\ AnsweredScalarCalls[i].returned =
                    ST_SimplifyPreserveTopology(rows[i].geometry, AnsweredScalarCalls[i].tol)
              /\ features[i].geometry =
                    IF Malformed(AnsweredScalarCalls[i].returned) THEN Placeholder
                    ELSE [type |-> "MultiPolygon",
                          coordinates |-> <<rows[i].geometry.shape,
                                            AnsweredScalarCalls[i].tol.f>>]

\* a query with zoom_level 7 and no tolerance has finished over two rows
\* with two simplification requests of tolerance 0.02
C4_Witness ==
    /\ pc = "done"
    /\ req.include_geometry /\ req.tolerance = None /\ req.zoom_level = IntV(7)
    /\ Len(rows) = 2
    /\ Len(ScalarCalls) = 2
    /\ ScalarCalls[1].tol = FloatV(2000)
    /\ features[2].geometry.type = "MultiPolygon"

\* the running request with its four bounding-box coordinates removed
WithoutBBox ==
    [req EXCEPT !.min_lon = None, !.min_lat = None, !.max_lon = None, !.max_lat = None]

PartialBBox ==
    \E c \in {req.min_lon, req.min_lat, req.max_lon, req.max_lat} : c = None

\* C8: a partial bounding box is silently ignored: when at least one of
\* the four coordinates is None the listing call carries no spatial
\* filter, and the query ends as the same query without any coordinate
\* ends: unless a session call raises, it returns exactly the Features of
\* that query, and it raises nothing that query does not raise.
C8_PartialBBoxIgnored ==
    (Running /\ PartialBBox) =>
        /\ dbCalls[1].op = "all" /\ dbCalls[1].bbox = None
        /\ (~dbCalls[1].raised) =>
              rows = SelectRows(db[Table],
                                IF Truthy(req.state_id) THEN req.state_id ELSE None,
                                None)
        /\ (pc \in {"done", "failed"} /\ result # Raised("StorageError")) =>
              result = ExpectedOutcome(WithoutBBox)

\* a query with three of the four coordinates has returned a row that the
\* box of the four coordinates would have filtered out
C8_Witness ==
    /\ pc = "done"
    /\ req.min_lon # None /\ req.min_lat # None /\ req.max_lon # None
    /\ req.max_lat = None
    /\ \E i \in DOMAIN rows :
          ~ST_Intersects(rows[i].geometry,
                         get_bounding_box_filter(req.min_lon, req.min_lat,
                                                 req.max_lon, req.min_lat))
    /\ Len(result.features) = Len(rows)

\* the geometry a Feature must carry for its row when conversions are
\* isolated: the placeholder when geometry is left out or the row's
\* geometry is malformed, else the converted raw or simplified geometry
IsolatedGeometry(row) ==
    IF ~req.include_geometry \/ Malformed(row.geometry) THEN Placeholder
    ELSE [type |-> "MultiPolygon",
          coordinates |-> <<row.geometry.shape,
                            IF tolerance # None /\ tolerance.f > 0
                            THEN tolerance.f ELSE 0>>]

\* C10: conversion failures are isolated per row: every row processed so
\* far has its Feature, so a query that returns over n rows returns n
\* Features; a Feature whose row's geometry fails to convert carries the
\* placeholder and its properties intact, all other Features carry their
\* converted geometry; and no query ends with a conversion error.
C10_ConversionFailureIsolated ==
    Running =>
        /\ Len(features) = idx
        /\ result # Raised("ConversionError")
        /\ pc = "done" => (idx = Len(rows) /\ Len(result.features) = Len(rows))
        /\ \A i \in DOMAIN features :
              /\ features[i].id = str(rows[i].id)
              /\ features[i].geometry = IsolatedGeometry(rows[i])
              /\ \A k \in DOMAIN ReservedProperties(rows[i]) :
                    k \in DOMAIN features[i].properties
              /\ rows[i].properties = None =>
                    features[i].properties = ReservedProperties(rows[i])

\* a query with geometry included has returned two Features, the first
\* degraded to the placeholder by a malformed geometry, the second intact
C10_Witness ==
    /\ pc = "done"
    /\ req.include_geometry
    /\ Len(rows) = 2 /\ Len(result.features) = 2
    /\ Malformed(rows[1].geometry) /\ ~Malformed(rows[2].geometry)
    /\ result.features[1].geometry = Placeholder
    /\ result.features[2].geometry.type = "MultiPolygon"

\* C11: with include_geometry false, whatever the store, tolerance, zoom
\* level and bounding box, every Feature built carries the placeholder
\* {type: Point, coordinates: [0, 0]}, no simplification request is made
\* and convert_geometry_to_geojson is never called.
C11_NoGeometryNoWork ==
    (Running /\ ~req.include_geometry) =>
        /\ \A i \in DOMAIN features : features[i].geometry = Placeholder
        /\ Len(ScalarCalls) = 0
        /\ conversions = <<>>
        /\ pc = "done" =>
              \A i \in DOMAIN result.features :
                  result.features[i].geometry = Placeholder

\* a query without geometry but with a positive tolerance has returned two
\* placeholder Features for rows whose stored geometry is well formed
C11_Witness ==
    /\ pc = "done"
    /\ ~req.include_geometry
    /\ tolerance # None /\ tolerance.f > 0
    /\ Len(result.features) = 2
    /\ ~Malformed(rows[1].geometry)
    /\ result.features[1].geometry = Placeholder

\* C12: storage failures are not masked: a session call that raises (the
\* listing or a per-row simplification) is the last session call of the
\* query (no retry, no call for the remaining rows), the query ends with
\* the storage error as its outcome instead of a Feature list, and no
\* Feature is made for the row whose request failed.
C12_StorageFailurePropagates ==
    \A i \in DOMAIN dbCalls :
        dbCalls[i].raised =>
            /\ i = Len(dbCalls)
            /\ pc = "failed"
            /\ result = Raised("StorageError")
            /\ Len(features) = idx
            /\ dbCalls[i].op = "scalar" =>
                  (idx < Len(rows) /\ dbCalls[i].id = rows[idx + 1].id)
            /\ (i = 1 /\ dbCalls[i].op = "all") => (rows = <<>> /\ features = <<>>)

\* the simplification request of the second of two rows has raised: the
\* query has failed holding one Feature, which the caller never receives
C12_Witness ==
    /\ pc = "failed"
    /\ result = Raised("StorageError")
    /\ Len(rows) = 2 /\ idx = 1 /\ Len(features) = 1
    /\ dbCalls[Len(dbCalls)].op = "scalar"
    /\ dbCalls[Len(dbCalls)].raised

\* where the row with a given id sits in a stored table
PositionOf(table, id) == CHOOSE k \in DOMAIN table : table[k].id = id

\* C13: order and cardinality are preserved: a query that returns, returns
\* exactly one Feature per listed row, the i-th Feature's id being the
\* string form of the i-th listed row's id; the listed rows are distinct
\* rows of the table in storage order, so nothing is duplicated, dropped
\* or re-sorted.
C13_OrderAndCardinality ==
    pc = "done" =>
        /\ Len(result.features) = Len(rows)
        /\ \A i \in DOMAIN rows : result.features[i].id = str(rows[i].id)
        /\ \A i \in DOMAIN rows : \E k \in DOMAIN db[Table] : db[Table][k] = rows[i]
        /\ \A i \in DOMAIN rows, j \in DOMAIN rows :
              i < j => PositionOf(db[Table], rows[i].id) < PositionOf(db[Table], rows[j].id)

\* a query has returned two Features whose ids are not in ascending order,
\* as the table lists them
C13_Witness ==
    /\ pc = "done"
    /\ Len(rows) = 2
    /\ rows[1].id.u > rows[2].id.u
    /\ result.features[1].id = str(rows[1].id)
    /\ result.features[2].id = str(rows[2].id)

\* the bounding-box predicate of the running request, or None
RequestBBox ==
    IF PartialBBox THEN None
    ELSE get_bounding_box_filter(req.min_lon, req.min_lat, req.max_lon, req.max_lat)

\* a county query that returned holds a Feature for exactly the stored
\* counties whose state_id is the state filter and that pass the box
ReturnedExactlyTheFiltered ==
    \A k \in DOMAIN db.counties :
        (\E i \in DOMAIN result.features :
            result.features[i].id = str(db.counties[k].id))
        <=> (/\ str(db.counties[k].state_id) = req.state_id
             /\ RequestBBox # None =>
                   ST_Intersects(db.counties[k].geometry, RequestBBox))

\* C14: the county state filter is exact: for a state filter s (a
\* non-empty id), a county query that returns holds a Feature for a stored
\* county if and only if the county's state_id equals s and it passes the
\* bounding box when one is given, and every returned Feature's state_id
\* property is the string form of s.
C14_StateFilterExact ==
    (pc = "done" /\ req.method = "get_counties" /\ Truthy(req.state_id)) =>
        /\ ReturnedExactlyTheFiltered
        /\ \A i \in DOMAIN result.features :
              result.features[i].properties["state_id"] = req.state_id


\* C15: an empty result is not an error: a query whose listing succeeded
\* and matched no entity never ends in an error other than a storage failure
\* of a later storage call, and when it returns it returns the empty Feature
\* sequence, from which the collection built has type "FeatureCollection"
\* and an empty features list.
C15_EmptyResultIsNotAnError ==
    (Running /\ ~dbCalls[1].raised /\ rows = <<>>) =>
        /\ features = <<>>
        /\ pc = "failed" => result = Raised("StorageError")
        /\ pc = "done" =>
              /\ result = Returned(<<>>)
              /\ GeoJSONFeatureCollection(result.features).type = "FeatureCollection"
              /\ GeoJSONFeatureCollection(result.features).features = <<>>

\* a county query over a non-empty counties table whose state filter
\* matches no county has returned the empty sequence
C15_Witness ==
    /\ pc = "done"
    /\ req.method = "get_counties"
    /\ Truthy(req.state_id)
    /\ Len(db.counties) > 0
    /\ rows = <<>>
    /\ result = Returned(<<>>)


\* an outcome that does not come from a storage failure
Deterministic(r) == r # Raised("StorageError")

\* C16: the query is idempotent: when a query is run again with the same
\* arguments against the same storage, the second run ends as the first did
\* unless storage failed in one of them; in particular two runs that both
\* return, return Feature sequences that are equal element for element.
C16_Idempotent ==
    \A i \in DOMAIN history :
        (pc \in {"done", "failed"} /\ Deterministic(result)
            /\ Deterministic(history[i].result)) =>
                /\ req = history[i].req
                /\ result = history[i].result

\* both runs of a state query with geometry and simplification have
\* returned two Features
C16_Witness ==
    /\ Len(history) = 1
    /\ pc = "done"
    /\ req.include_geometry
    /\ Truthy(tolerance)
    /\ history[1].result.status = "ok"
    /\ Len(history[1].result.features) = 2
    /\ result = history[1].result


\* C17: the query path is read-only: no step of a state or county query,
\* whether the query goes on to return, to fail on a storage error or is
\* left at that step, changes the stored entities, and once the entities
\* are listed no step changes the listed records or their property bags.
C17_ReadOnly ==
    [][/\ db' = db
       /\ pc # "idle" => rows' = rows]_vars

\* a query has finished, by returning or by a storage failure, after
\* building a Feature from a listed record that has a property bag, and
\* the listed records are still the stored ones
C17_Witness ==
    /\ pc \in {"done", "failed"}
    /\ Len(rows) = 2
    /\ Len(features) >= 1
    /\ rows[1].properties # None
    /\ pc = "failed" => result = Raised("StorageError")
    /\ \A i \in DOMAIN rows : \E k \in DOMAIN db[Table] : db[Table][k] = rows[i]


\* the keys of the row's property bag
BagKeys(row) == IF row.properties = None THEN {} ELSE DOMAIN row.properties.items

\* the reserved keys of a state Feature that the bag does not repeat carry
\* the row's values
SuppliedKeysCarryRowValues(i) ==
    /\ {"name", "abbreviation", "id"} \subseteq DOMAIN features[i].properties
    /\ "name" \notin BagKeys(rows[i]) =>
          features[i].properties["name"] = rows[i].name
    /\ "abbreviation" \notin BagKeys(rows[i]) =>
          features[i].properties["abbreviation"] = rows[i].abbreviation
    /\ "id" \notin BagKeys(rows[i]) =>
          features[i].properties["id"] = str(rows[i].id)

C19_IdentifierConsistent ==
    Running =>
        \A i \in DOMAIN features :
            /\ features[i].type = "Feature"
            /\ features[i].id = str(rows[i].id)
            /\ features[i].properties["id"] = features[i].id

\* C20: Feature assembly has no failure modes: whatever the property bags
\* of the listed rows hold (a non-string value under "name" or "fips_code"
\* included), a state or county query ends in an error only if one of its
\* storage calls failed, and a query that lists rows and whose storage
\* calls all succeed returns one Feature per row.
C20_AssemblyNeverRaises ==
    /\ pc = "failed" => \E i \in DOMAIN dbCalls : dbCalls[i].raised
    /\ pc = "done" => Len(result.features) = Len(rows)


\* the reserved keys of a row: those the loop sets from the row's columns
ReservedKeys(row) ==
    (IF Table = "states" THEN {"name", "abbreviation", "fips_code", "id"}
     ELSE {"name", "fips_code", "state_id", "id"})
    \cup (IF row.population # None THEN {"population"} ELSE {})
    \cup (IF row.area_sq_miles # None THEN {"area_sq_miles"} ELSE {})

\* C21: optional numeric attributes are added only when non-null: for a
\* row whose bag has no population (area_sq_miles) key, the Feature's
\* properties contain the key population (area_sq_miles) if and only if the
\* row's population (area) is not null, a population of 0 included, and the
\* key then carries the row's value; a null attribute is never a key.
C21_NumericOnlyWhenNonNull ==
    Running =>
        \A i \in DOMAIN features :
            /\ "population" \notin BagKeys(rows[i]) =>
                  /\ "population" \in DOMAIN features[i].properties
                        <=> rows[i].population # None
                  /\ rows[i].population # None =>
                        features[i].properties["population"] = rows[i].population
            /\ "area_sq_miles" \notin BagKeys(rows[i]) =>
                  /\ "area_sq_miles" \in DOMAIN features[i].properties
                        <=> rows[i].area_sq_miles # None
                  /\ rows[i].area_sq_miles # None =>
                        features[i].properties["area_sq_miles"] = rows[i].area_sq_miles

\* a query has returned the Feature of a row with population 0, no area
\* and a bag without either key: population is there with 0, area is not
C21_Witness ==
    /\ pc = "done"
    /\ Len(rows) >= 1
    /\ rows[1].population = IntV(0)
    /\ rows[1].area_sq_miles = None
    /\ rows[1].properties # None
    /\ "population" \notin BagKeys(rows[1])
    /\ result.features[1].properties["population"] = IntV(0)
    /\ "area_sq_miles" \notin DOMAIN result.features[1].properties


\* C22: non-colliding extras are all copied: every key of the row's bag
\* that is not a reserved key set from the row's columns is in the
\* Feature's properties with exactly the bag's value, and the Feature's
\* properties have no key besides the reserved keys and the bag's keys.
C22_ExtrasCopied ==
    Running =>
        \A i \in DOMAIN features :
            /\ \A k \in BagKeys(rows[i]) \ ReservedKeys(rows[i]) :
                  /\ k \in DOMAIN features[i].properties
                  /\ features[i].properties[k] = rows[i].properties.items[k]
            /\ DOMAIN features[i].properties
                  \subseteq ReservedKeys(rows[i]) \cup BagKeys(rows[i])

\* a query has returned a Feature carrying a structured value of the bag
\* under a key that is not reserved
C22_Witness ==
    /\ pc = "done"
    /\ \E i \in DOMAIN rows :
          /\ "note" \in BagKeys(rows[i])
          /\ rows[i].properties.items["note"] = Dict(EmptyItems)
          /\ result.features[i].properties["note"] = Dict(EmptyItems)


\* C30: an empty-string state filter counts as no filter: a county query
\* whose state_id is the empty string lists exactly the stored counties
\* that pass the bounding box, of whatever state, and when it returns it
\* returns what the query with state_id absent returns.
C30_EmptyStateFilterIsNoFilter ==
    (Running /\ req.method = "get_counties" /\ req.state_id = Str("")
        /\ ~dbCalls[1].raised) =>
        /\ \A k \in DOMAIN db.counties :
              (\E i \in DOMAIN rows : rows[i] = db.counties[k])
              <=> (RequestBBox # None =>
                      ST_Intersects(db.counties[k].geometry, RequestBBox))
        /\ pc = "done" => result = ExpectedOutcome([req EXCEPT !.state_id = None])

\* a county query with state_id "" has returned counties of two states
C30_Witness ==
    /\ pc = "done"
    /\ req.method = "get_counties"
    /\ req.state_id = Str("")
    /\ Len(result.features) = 2
    /\ rows[1].state_id # rows[2].state_id


\* C23: entity names never steer the result: the name-specific debugging
\* branches issue no storage call whose failure can change the outcome of
\* the query, so a query ends in a storage failure only when its listing
\* or one of its simplification requests failed, whatever the stored states
\* are named.
C23_NamesNeverSteer ==
    \A i \in DOMAIN dbCalls :
        dbCalls[i].raised => (i = 1 \/ dbCalls[i].op = "scalar")


\* all four coordinates of the running request are present
AllFourPresent ==
    \A x \in {req.min_lon, req.min_lat, req.max_lon, req.max_lat} : x # None

\* the envelope of the running request's coordinates, in the caller's order
CallersEnvelope ==
    [tag |-> "envelope",
     args |-> <<req.min_lon, req.min_lat, req.max_lon, req.max_lat>>,
     srid |-> 4326]

\* C26: the bounding-box predicate carries the caller's rectangle
\* unchanged: whenever all four coordinates are present the listing is
\* filtered by the envelope (min_lon, min_lat, max_lon, max_lat), in that
\* order, with authority code 4326, also when min_lon > max_lon or
\* min_lat > max_lat, and the listing holds exactly the rows of the table
\* (of the state filter, if any) whose geometry storage finds to intersect
\* that rectangle.
C26_RectangleUnchanged ==
    (Running /\ AllFourPresent) =>
        /\ dbCalls[1].bbox = CallersEnvelope
        /\ ~dbCalls[1].raised =>
              \A k \in DOMAIN db[Table] :
                  (\E i \in DOMAIN rows : rows[i] = db[Table][k])
                  <=> (/\ dbCalls[1].parent # None =>
                             str(db[Table][k].state_id) = dbCalls[1].parent
                       /\ ST_Intersects(db[Table][k].geometry, CallersEnvelope))

\* a query with min_lat > max_lat has returned some of the rows of its
\* table and not others
C26_Witness ==
    /\ pc = "done"
    /\ AllFourPresent
    /\ req.min_lat.f > req.max_lat.f
    /\ Len(rows) >= 1
    /\ Len(rows) < Len(db[Table])
    /\ req.state_id = None


\* the frame f has ended as its request ends when it runs alone: whatever
\* it returned, or raised without a failed storage call, is the outcome of
\* its arguments over the store
EndsAsAlone(f) ==
    /\ f.pc = "done" => f.result = ExpectedOutcome(f.req)
    /\ (f.pc = "failed" /\ \A i \in DOMAIN f.dbCalls : ~f.dbCalls[i].raised) =>
          f.result = ExpectedOutcome(f.req)

\* C24: concurrent queries do not interfere: when two queries run with
\* their storage calls interleaved in any order over an unmodified store,
\* each returns exactly the Feature sequence it returns when run alone.
C24_NoInterference ==
    other.pc # "none" => (EndsAsAlone(RunningFrame) /\ EndsAsAlone(other))

\* a state query and a county query are both part-way through their
\* rows, each with one Feature built and a simplification request made
C24_Witness ==
    /\ pc = "states_loop"
    /\ other.pc = "counties_loop"
    /\ idx = 1 /\ Len(rows) = 2 /\ Len(features) = 1
    /\ other.idx = 1 /\ Len(other.rows) = 2 /\ Len(other.features) = 1
    /\ Len(ScalarCalls) = 1
    /\ features[1] = ExpectedOutcome(req).features[1]


\* the call of the query service with the handler's include_geometry and
\* state_id and no tolerance, zoom level or bounding box
ServiceRequest ==
    [method |-> IF req.method = "route_states" THEN "get_all_states"
                ELSE "get_counties",
     include_geometry |-> req.include_geometry, state_id |-> req.state_id,
     tolerance |-> None, zoom_level |-> None,
     min_lon |-> None, min_lat |-> None, max_lon |-> None, max_lat |-> None]

\* C28: the HTTP route handlers and the query service agree: a handler no
\* session call of which failed responds exactly when the service method
\* called with the same include_geometry and state_id returns, with the
\* same Features element for element; in particular a stored geometry whose
\* conversion fails gives a placeholder-geometry Feature from both.
C28_RoutesAgreeWithService ==
    (pc \in {"done", "failed"} /\ \A i \in DOMAIN dbCalls : ~dbCalls[i].raised) =>
        /\ result.status = "ok" <=> ExpectedOutcome(ServiceRequest).status = "ok"
        /\ result.status = "ok" =>
              result.collection.features = ExpectedOutcome(ServiceRequest).features


\* the first two characters of a county's FIPS code
FipsPrefix(county) == SubSeq(county.fips_code.s, 1, Min(2, Len(county.fips_code.s)))

\* the state FIPS an input feature names, as the running script reads it
InputStateFips(script, feature) ==
    LET p == feature.properties
    IN  IF script = "ingest_all_counties"
        THEN IF "STATE" \in DOMAIN p THEN zfill(PyStr(p["STATE"]), 2) ELSE ""
        ELSE IF \E key \in {"FIPS", "fips", "GEOID"} : key \in DOMAIN p
             THEN LET code == p[CHOOSE key \in {"FIPS", "fips", "GEOID"} : key \in DOMAIN p]
                  IN  IF code.tag = "str" THEN SubSeq(code.s, 1, Min(2, Len(code.s)))
                      ELSE ""
             ELSE ""

\* C25: at every point of a county ingestion run every stored county's
\* state_id is the id of a stored state whose fips_code is the first two
\* characters of the county's fips_code, and a feature whose state FIPS no
\* stored state has was skipped, not inserted
C25_ReferentialIntegrity ==
    /\ \A i \in DOMAIN db.counties :
        \E j \in DOMAIN db.states :
            /\ db.states[j].id = db.counties[i].state_id
            /\ db.states[j].fips_code = Str(FipsPrefix(db.counties[i]))
    /\ \A i \in DOMAIN job.log :
        (\A j \in DOMAIN db.states :
            db.states[j].fips_code # Str(InputStateFips(job.script, job.log[i].feature)))
        => /\ job.log[i].outcome = "skipped"
           /\ \A c \in DOMAIN db.counties :
                db.counties[c].properties # Dict(job.log[i].feature.properties)

\* a finished run that inserted one county and skipped one of an unknown state
C25_Witness ==
    /\ job.pc = "returned" /\ job.returned = TRUE
    /\ \E i, k \in DOMAIN job.log :
        /\ job.log[i].outcome = "inserted"
        /\ job.log[k].outcome = "skipped"
        /\ DictGet(job.log[k].feature.properties, "NAME", None) = Str("Nowhere")
    /\ \E c \in DOMAIN db.counties : db.counties[c].id.u > 20

\* the four steps of ingest_all_data, in the order of its source
StepOrder == <<"clear_all_data", "ingest_states", "ingest_counties",
               "create_spatial_indexes">>

\* C29: at every point of a run of ingest_all_data the steps entered are a
\* prefix of clear_all_data, ingest_states, ingest_counties,
\* create_spatial_indexes; a step is entered only after every earlier step
\* returned True; the run returns once a step returns False, entering no
\* later step, and its value is True exactly when all four steps returned
\* True; clear_all_data deletes the counties before the states
C29_SequentialFailFast ==
    /\ Len(job.started) <= Len(StepOrder)
    /\ \A k \in DOMAIN job.started : job.started[k] = StepOrder[k]
    /\ Len(job.results) <= Len(job.started)
    /\ Len(job.started) <= Len(job.results) + 1
    /\ \A k \in DOMAIN job.results : job.results[k].step = StepOrder[k]
    /\ \A k \in DOMAIN job.started :
        \A j \in 1..(k - 1) : j \in DOMAIN job.results /\ job.results[j].ok
    /\ (\E k \in DOMAIN job.results : ~job.results[k].ok)
        => /\ job.pc = "returned"
           /\ job.returned = FALSE
           /\ Len(job.started) = Len(job.results)
    /\ job.pc = "returned"
        => /\ Len(job.started) = Len(job.results)
           /\ job.returned
                <=> /\ Len(job.results) = Len(StepOrder)
                    /\ \A k \in DOMAIN job.results : job.results[k].ok
    /\ job.pc # "returned" => job.returned = None
    /\ Len(job.deleted) <= 2
    /\ \A k \in DOMAIN job.deleted : job.deleted[k] = <<"counties", "states">>[k]
    /\ Len(job.started) >= 2 => job.deleted = <<"counties", "states">>

\* a run that cleared both tables, ingested states, failed in
\* ingest_counties and returned False without creating the indexes
C29_Witness ==
    /\ job.pc = "returned"
    /\ job.returned = FALSE
    /\ job.deleted = <<"counties", "states">>
    /\ job.started = <<"clear_all_data", "ingest_states", "ingest_counties">>
    /\ Len(job.results) = 3
    /\ job.results[2].ok
    /\ ~job.results[3].ok
    /\ db.states # <<>>

\* the row the loop of the running query is at
CurrentRow == rows[idx + 1]

\* C27: a loop step whose simplification request is answered with no
\* geometry, without raising, appends the row's Feature (its id, its
\* properties, the placeholder geometry) and leaves the query in the loop,
\* at the next row, with no error
C27_MissingRowDegrades ==
    [][(/\ pc \in {"states_loop", "counties_loop"}
        /\ Len(dbCalls') = Len(dbCalls) + 1
        /\ dbCalls'[Len(dbCalls')].op = "scalar"
        /\ ~dbCalls'[Len(dbCalls')].raised
        /\ dbCalls'[Len(dbCalls')].returned = None)
       => /\ pc' = pc
          /\ result' = result
          /\ idx' = idx + 1
          /\ features' = Append(features,
                GeoJSONFeature(str(CurrentRow.id), create_placeholder_geometry,
                               IF pc = "states_loop" THEN StateProperties(CurrentRow)
                               ELSE CountyProperties(CurrentRow)))]_vars

\* a query returned two Features: the first with the simplified geometry,
\* the second, whose row was deleted after the listing, with the placeholder
C27_Witness ==
    /\ pc = "done"
    /\ job.deleted # <<>>
    /\ Len(rows) = 2
    /\ result = Returned(features)
    /\ Len(features) = 2
    /\ features[1].geometry # create_placeholder_geometry
    /\ features[2].geometry = create_placeholder_geometry
    /\ \E i \in DOMAIN dbCalls :
        /\ dbCalls[i].op = "scalar"
        /\ dbCalls[i].id = rows[2].id
        /\ dbCalls[i].returned = None
====
